---------------------------- MODULE Spec2Model ----------------------------
(***************************************************************************)
(* Cycle-level model of the 5-stage pipelined MIPS CPU of                  *)
(* src/mips/core/cpu.py (class CPU and its sub-components), together with  *)
(* the instruction memory (combinational read) and the data memory         *)
(* (synchronous, write-transparent read) the simulation benches attach.    *)
(*                                                                         *)
(* A 32-bit signal is represented by the signed reading of its bit         *)
(* pattern, an integer in -2^31 .. 2^31-1; all arithmetic is carried out   *)
(* on 16-bit halves so that every wrap-around of the hardware is kept.     *)
(***************************************************************************)
EXTENDS Integers, Sequences, FiniteSets, TLC

(***************************************************************************)
(* 32-bit words                                                            *)
(***************************************************************************)
Half == 65536

HalfSign == 32768

Hi(a) == a \div Half

Lo(a) == a % Half

\* the word whose upper half has bit pattern h and lower half l (0 <= h,l < 2^16)
Word(h, l) == (IF h >= HalfSign THEN h - Half ELSE h) * Half + l

\* variant: an adder that drops the carry out of the lower half
WordAdd_NoCarry(a, b) ==
    Word((Hi(a) + Hi(b)) % Half, (Lo(a) + Lo(b)) % Half)

WordAdd(a, b) ==
    LET lo == Lo(a) + Lo(b)
        hi == Hi(a) + Hi(b) + (lo \div Half)
    IN  Word(hi % Half, lo % Half)

WordSub(a, b) ==
    LET lo == Lo(a) - Lo(b)
        hi == Hi(a) - Hi(b) + (lo \div Half)
    IN  Word(hi % Half, lo % Half)

RECURSIVE BitAnd(_, _, _)
BitAnd(x, y, n) ==
    IF n = 0 THEN 0
    ELSE (IF x % 2 = 1 /\ y % 2 = 1 THEN 1 ELSE 0)
         + 2 * BitAnd(x \div 2, y \div 2, n - 1)

RECURSIVE BitOr(_, _, _)
BitOr(x, y, n) ==
    IF n = 0 THEN 0
    ELSE (IF x % 2 = 1 \/ y % 2 = 1 THEN 1 ELSE 0)
         + 2 * BitOr(x \div 2, y \div 2, n - 1)

WordAnd(a, b) ==
    Word(BitAnd(Hi(a) % Half, Hi(b) % Half, 16), BitAnd(Lo(a), Lo(b), 16))

WordOr(a, b) ==
    Word(BitOr(Hi(a) % Half, Hi(b) % Half, 16), BitOr(Lo(a), Lo(b), 16))

\* bits lo .. lo+n-1 of a word, as an unsigned number (lo + n <= 32, n <= 30)
Bits(w, lo, n) == (w \div (2 ^ lo)) % (2 ^ n)

\* Cat(imm, imm[15].replicate(16)): the 16-bit immediate sign-extended
SignExt16(imm) == Word(IF imm >= HalfSign THEN Half - 1 ELSE 0, imm)

\* Cat(imm, Const(0, 16)): the 16-bit immediate zero-extended
ZeroExt16(imm) == Word(0, imm)

\* the 32-bit truncation of (w << 2)
Shl2(w) == Word((Hi(w) * 4 + Lo(w) \div 16384) % Half, (Lo(w) * 4) % Half)

(***************************************************************************)
(* Opcode and Funct encodings                                              *)
(***************************************************************************)
R_TYPE == 0

ADDI == 8

ANDI == 12

ORI == 13

SLTI == 10

LW == 35

SW == 43

BEQ == 4

BNE == 5

J == 2

JAL == 3

F_ADD == 32

F_SUB == 34

F_AND == 36

F_OR == 37

F_SLT == 42

F_SLL == 0

F_SRL == 2

\* enumerated by the source, not handled by the decode stage
LUI == 15

F_NOR == 39

F_JR == 8

(***************************************************************************)
(* Instruction words: the assembler's encoders and the field slices that   *)
(* decode, the hazard units and the benches take of a word                 *)
(***************************************************************************)
\* the word with bit pattern (opcode << 26) | low, low < 2^26
OpWord(opcode, low) == (IF opcode >= 32 THEN opcode - 64 ELSE opcode) * (2 ^ 26) + low

encode_r_type(opcode, rs, rt, rd, shamt, funct) ==
    OpWord(opcode, rs * (2 ^ 21) + rt * (2 ^ 16) + rd * (2 ^ 11) + shamt * (2 ^ 6) + funct)

encode_i_type(opcode, rs, rt, imm) ==
    OpWord(opcode, rs * (2 ^ 21) + rt * (2 ^ 16) + (imm % Half))

encode_j_type(opcode, addr) == OpWord(opcode, addr % (2 ^ 26))

nop == 0

OpcodeOf(w) == Bits(w, 26, 6)

RsOf(w) == Bits(w, 21, 5)

RtOf(w) == Bits(w, 16, 5)

RdOf(w) == Bits(w, 11, 5)

ShamtOf(w) == Bits(w, 6, 5)

FunctOf(w) == Bits(w, 0, 6)

ImmOf(w) == Bits(w, 0, 16)

AddrOf(w) == Bits(w, 0, 26)

(***************************************************************************)
(* ALU (combinational)                                                     *)
(***************************************************************************)
ALU(op, a, b) ==
    CASE op = 0 -> WordAdd(a, b)
      [] op = 1 -> WordSub(a, b)
      [] op = 2 -> WordAnd(a, b)
      [] op = 3 -> WordOr(a, b)
      [] OTHER  -> 0

(***************************************************************************)
(* Decode stage (combinational): a function of the IF/ID latch and of the  *)
(* two register-file read values                                           *)
(***************************************************************************)
\* current_pc + 4 + (imm_ext << 2) before truncation, as 16-bit limbs;
\* hi >= 2^16 when the sum does not fit 32 bits
BranchSum(current_pc, imm) ==
    LET ext == SignExt16(imm)
        lo  == Lo(current_pc) + 4 + Lo(ext) * 4
        hi  == (Hi(current_pc) % Half) + (Hi(ext) % Half) * 4 + (lo \div Half)
    IN  [hi |-> hi, lo |-> lo % Half]

\* variant: the branch offset added without its shift by two
BranchTarget_NoShift(current_pc, imm) ==
    WordAdd(WordAdd(current_pc, 4), SignExt16(imm))

BranchTarget(current_pc, imm) ==
    LET s == BranchSum(current_pc, imm) IN Word(s.hi % Half, s.lo)

\* self.input.next_pc != (self.current_pc + 4 + (imm_ext << 2)), compared at
\* the full width of the sum
BranchMispredicted(next_pc, current_pc, imm) ==
    LET s == BranchSum(current_pc, imm)
    IN  s.hi >= Half \/ Word(s.hi % Half, s.lo) # next_pc

\* Cat(Const(0, 2), inst_word[0:26], pc_snapshot[28:32])
JumpAddr(inst_word, pc_snapshot) ==
    Word(Bits(pc_snapshot, 28, 4) * 4096 + AddrOf(inst_word) \div 16384,
         (AddrOf(inst_word) % 16384) * 4)

ZeroControl ==
    [imm_value |-> 0, shift_amount |-> 0, alu_opcode |-> 0, alu_operand_sel |-> 0,
     mem_read_en |-> 0, mem_write_en |-> 0, dest_reg |-> 0, reg_write_en |-> 0,
     mem_to_reg_sel |-> 0]

RTypeAluOpcode(funct) ==
    CASE funct = F_ADD -> 0
      [] funct = F_SUB -> 1
      [] funct = F_AND -> 2
      [] funct = F_OR  -> 3
      [] funct = F_SLT -> 4
      [] funct = F_SLL -> 5
      [] funct = F_SRL -> 6
      [] OTHER -> 0

\* variant: the SW case also raises mem_read_en
ITypeControl_StoreReads(opcode, rt, imm) ==
    LET base == [ZeroControl EXCEPT !.alu_operand_sel = 1, !.imm_value = imm]
        wr(op) == [base EXCEPT !.alu_opcode = op, !.dest_reg = rt, !.reg_write_en = 1]
    IN  CASE opcode = ADDI -> wr(0)
          [] opcode = ANDI -> wr(2)
          [] opcode = ORI  -> wr(3)
          [] opcode = SLTI -> wr(4)
          [] opcode = LW   -> [wr(0) EXCEPT !.mem_read_en = 1, !.mem_to_reg_sel = 1]
          [] opcode = SW   -> [base EXCEPT !.mem_write_en = 1, !.mem_read_en = 1]

ITypeControl(opcode, rt, imm) ==
    LET base == [ZeroControl EXCEPT !.alu_operand_sel = 1, !.imm_value = imm]
        wr(op) == [base EXCEPT !.alu_opcode = op, !.dest_reg = rt, !.reg_write_en = 1]
    IN  CASE opcode = ADDI -> wr(0)
          [] opcode = ANDI -> wr(2)
          [] opcode = ORI  -> wr(3)
          [] opcode = SLTI -> wr(4)
          [] opcode = LW   -> [wr(0) EXCEPT !.mem_read_en = 1, !.mem_to_reg_sel = 1]
          [] opcode = SW   -> [base EXCEPT !.mem_write_en = 1]

\* the control bundle: the If/Elif chain on the opcode
DecodeControl(inst_word) ==
    LET opcode == OpcodeOf(inst_word)
    IN  IF opcode = R_TYPE
        THEN [ZeroControl EXCEPT !.shift_amount = ShamtOf(inst_word),
                                 !.dest_reg = RdOf(inst_word),
                                 !.reg_write_en = 1,
                                 !.alu_opcode = RTypeAluOpcode(FunctOf(inst_word))]
        ELSE IF opcode \in {ADDI, ANDI, ORI, SLTI, LW, SW}
        THEN ITypeControl(opcode, RtOf(inst_word), ImmOf(inst_word))
        ELSE IF opcode \in {BEQ, BNE}
        THEN ZeroControl
        ELSE IF opcode = JAL
        THEN [ZeroControl EXCEPT !.dest_reg = 31, !.reg_write_en = 1]
        ELSE ZeroControl

BranchTaken(opcode, rs_value_in, rt_value_in) ==
    \/ opcode = BEQ /\ rs_value_in = rt_value_in
    \/ opcode = BNE /\ rs_value_in # rt_value_in

\* output.next_pc of decode
DecodeNextPc(input, rs_value_in, rt_value_in) ==
    LET opcode == OpcodeOf(input.inst_word)
    IN  IF opcode \in {J, JAL}
        THEN JumpAddr(input.inst_word, input.next_pc)
        ELSE IF BranchTaken(opcode, rs_value_in, rt_value_in)
        THEN BranchTarget(input.current_pc, ImmOf(input.inst_word))
        ELSE input.next_pc

\* flush_request of decode
DecodeFlush(input, rs_value_in, rt_value_in) ==
    LET opcode == OpcodeOf(input.inst_word)
    IN  IF opcode \in {J, JAL}
        THEN input.next_pc # JumpAddr(input.inst_word, input.next_pc)
        ELSE /\ BranchTaken(opcode, rs_value_in, rt_value_in)
             /\ BranchMispredicted(input.next_pc, input.current_pc, ImmOf(input.inst_word))

\* the ID stage bus driven into ID/EX
InstructionDecodeStage(input, rs_value_in, rt_value_in) ==
    LET c == DecodeControl(input.inst_word)
    IN  [rs_index |-> RsOf(input.inst_word),
         rt_index |-> RtOf(input.inst_word),
         rs_value |-> rs_value_in,
         rt_value |-> rt_value_in,
         imm_value |-> c.imm_value,
         shift_amount |-> c.shift_amount,
         alu_opcode |-> c.alu_opcode,
         alu_operand_sel |-> c.alu_operand_sel,
         mem_read_en |-> c.mem_read_en,
         mem_write_en |-> c.mem_write_en,
         dest_reg |-> c.dest_reg,
         reg_write_en |-> c.reg_write_en,
         mem_to_reg_sel |-> c.mem_to_reg_sel,
         next_pc |-> DecodeNextPc(input, rs_value_in, rt_value_in)]

(***************************************************************************)
(* Hazard detection unit and forwarding unit (combinational)               *)
(***************************************************************************)
\* variant: the unit without its load-use term
HazardDetectionUnit_NoLoadUse(if_id_src_reg, opcode, haz) ==
    LET is_branch == opcode = BEQ \/ opcode = BNE
    IN  /\ is_branch
        /\ if_id_src_reg # 0
        /\ \/ haz.id_ex_reg_write_en = 1 /\ haz.id_ex_dest_reg = if_id_src_reg
           \/ haz.ex_mem_reg_write_en = 1 /\ haz.ex_mem_dest_reg = if_id_src_reg

\* variant: the unit without its two branch terms
HazardDetectionUnit_NoBranchHazard(if_id_src_reg, opcode, haz) ==
    /\ haz.id_ex_mem_read_en = 1
    /\ haz.id_ex_dest_reg # 0
    /\ haz.id_ex_dest_reg = if_id_src_reg

\* variant: a forwarding unit that only looks at MEM/WB
ForwardingUnit_NoExMem(src_reg, fallback_data, fwd) ==
    IF src_reg # 0 /\ fwd.mem_wb_reg_write_en = 1 /\ src_reg = fwd.mem_wb_dest_reg
    THEN fwd.mem_wb_forward_value
    ELSE fallback_data

\* variant: the load-use term without its test for destination register 0
HazardDetectionUnit_StallOnZero(if_id_src_reg, opcode, haz) ==
    LET is_branch == opcode = BEQ \/ opcode = BNE
    IN  \/ haz.id_ex_mem_read_en = 1 /\ haz.id_ex_dest_reg = if_id_src_reg
        \/ /\ is_branch
           /\ if_id_src_reg # 0
           /\ \/ haz.id_ex_reg_write_en = 1 /\ haz.id_ex_dest_reg = if_id_src_reg
              \/ haz.ex_mem_reg_write_en = 1 /\ haz.ex_mem_dest_reg = if_id_src_reg

\* variant: the ID/EX and EX/MEM producer terms without their branch test
HazardDetectionUnit_AnyOpcode(if_id_src_reg, opcode, haz) ==
    \/ /\ haz.id_ex_mem_read_en = 1
       /\ haz.id_ex_dest_reg # 0
       /\ haz.id_ex_dest_reg = if_id_src_reg
    \/ /\ if_id_src_reg # 0
       /\ \/ haz.id_ex_reg_write_en = 1 /\ haz.id_ex_dest_reg = if_id_src_reg
          \/ haz.ex_mem_reg_write_en = 1 /\ haz.ex_mem_dest_reg = if_id_src_reg

\* variant: the unit without its EX/MEM branch term
HazardDetectionUnit_NoMemBranchHazard(if_id_src_reg, opcode, haz) ==
    LET is_branch == opcode = BEQ \/ opcode = BNE
    IN  \/ /\ haz.id_ex_mem_read_en = 1
           /\ haz.id_ex_dest_reg # 0
           /\ haz.id_ex_dest_reg = if_id_src_reg
        \/ /\ is_branch
           /\ if_id_src_reg # 0
           /\ haz.id_ex_reg_write_en = 1
           /\ haz.id_ex_dest_reg = if_id_src_reg

\* haz: id_ex_mem_read_en, id_ex_dest_reg, id_ex_reg_write_en,
\*      ex_mem_reg_write_en, ex_mem_dest_reg
HazardDetectionUnit(if_id_src_reg, opcode, haz) ==
    LET load_use_hazard ==
            /\ haz.id_ex_mem_read_en = 1
            /\ haz.id_ex_dest_reg # 0
            /\ haz.id_ex_dest_reg = if_id_src_reg
        is_branch == opcode = BEQ \/ opcode = BNE
        branch_hazard_ex ==
            /\ is_branch
            /\ if_id_src_reg # 0
            /\ haz.id_ex_reg_write_en = 1
            /\ haz.id_ex_dest_reg = if_id_src_reg
        branch_hazard_mem ==
            /\ is_branch
            /\ if_id_src_reg # 0
            /\ haz.ex_mem_reg_write_en = 1
            /\ haz.ex_mem_dest_reg = if_id_src_reg
    IN  load_use_hazard \/ branch_hazard_ex \/ branch_hazard_mem

\* variant: a forwarding unit that prefers MEM/WB to EX/MEM
ForwardingUnit_MemWbFirst(src_reg, fallback_data, fwd) ==
    IF src_reg # 0 /\ fwd.mem_wb_reg_write_en = 1 /\ src_reg = fwd.mem_wb_dest_reg
    THEN fwd.mem_wb_forward_value
    ELSE IF src_reg # 0 /\ fwd.ex_mem_reg_write_en = 1 /\ src_reg = fwd.ex_mem_dest_reg
    THEN fwd.ex_mem_forward_value
    ELSE fallback_data

\* fwd: ex_mem_reg_write_en, ex_mem_dest_reg, ex_mem_forward_value,
\*      mem_wb_reg_write_en, mem_wb_dest_reg, mem_wb_forward_value
ForwardingUnit(src_reg, fallback_data, fwd) ==
    LET ex_hazard ==
            /\ src_reg # 0
            /\ fwd.ex_mem_reg_write_en = 1
            /\ src_reg = fwd.ex_mem_dest_reg
        mem_hazard ==
            /\ src_reg # 0
            /\ fwd.mem_wb_reg_write_en = 1
            /\ src_reg = fwd.mem_wb_dest_reg
    IN  IF ex_hazard THEN fwd.ex_mem_forward_value
        ELSE IF mem_hazard THEN fwd.mem_wb_forward_value
        ELSE fallback_data

(***************************************************************************)
(* Execute, memory and write-back stages (combinational)                   *)
(***************************************************************************)
\* variant: every immediate sign-extended
AluOperandB_SignExtAll(input, forwarding_rt) ==
    IF input.alu_operand_sel = 1 THEN SignExt16(input.imm_value) ELSE forwarding_rt

\* alu_b: the ALU's second operand, the immediate or the forwarded rt
AluOperandB(input, forwarding_rt) ==
    LET is_logic_imm == input.alu_opcode = 2 \/ input.alu_opcode = 3
    IN  IF input.alu_operand_sel = 1
        THEN IF is_logic_imm THEN ZeroExt16(input.imm_value)
                             ELSE SignExt16(input.imm_value)
        ELSE forwarding_rt

\* variant: store data taken from the value latched in ID/EX
ExecuteStage_StaleStoreData(input, forwarding_rs, forwarding_rt) ==
    [alu_result_value |-> ALU(input.alu_opcode, forwarding_rs, AluOperandB(input, forwarding_rt)),
     store_data |-> input.rt_value,
     mem_read_en |-> input.mem_read_en,
     mem_write_en |-> input.mem_write_en,
     dest_reg |-> input.dest_reg,
     reg_write_en |-> input.reg_write_en,
     mem_to_reg_sel |-> input.mem_to_reg_sel]

ExecuteStage(input, forwarding_rs, forwarding_rt) ==
    LET alu_b == AluOperandB(input, forwarding_rt)
    IN  [alu_result_value |-> ALU(input.alu_opcode, forwarding_rs, alu_b),
         store_data |-> forwarding_rt,
         mem_read_en |-> input.mem_read_en,
         mem_write_en |-> input.mem_write_en,
         dest_reg |-> input.dest_reg,
         reg_write_en |-> input.reg_write_en,
         mem_to_reg_sel |-> input.mem_to_reg_sel]

\* variant: a MEM stage where the read arm is tested first
MemoryStage_ReadWins(input, mem_read_data_in) ==
    [alu_result_value |-> input.alu_result_value,
     load_data |-> IF input.mem_read_en = 1 THEN mem_read_data_in ELSE 0,
     dest_reg |-> input.dest_reg,
     reg_write_en |-> input.reg_write_en,
     mem_to_reg_sel |-> input.mem_to_reg_sel]

\* the MEM stage bus driven into MEM/WB
MemoryStage(input, mem_read_data_in) ==
    [alu_result_value |-> input.alu_result_value,
     load_data |-> IF input.mem_write_en = 1 THEN 0
                   ELSE IF input.mem_read_en = 1 THEN mem_read_data_in
                   ELSE 0,
     dest_reg |-> input.dest_reg,
     reg_write_en |-> input.reg_write_en,
     mem_to_reg_sel |-> input.mem_to_reg_sel]

\* the external write port driven by the MEM stage
MemoryStageWrite(input) ==
    [mem_addr_out |-> input.alu_result_value,
     mem_write_data_out |-> IF input.mem_write_en = 1 THEN input.store_data ELSE 0,
     mem_write_en_out |-> IF input.mem_write_en = 1 THEN 1 ELSE 0]

WriteBackStage(input) ==
    [write_back_data |-> IF input.mem_to_reg_sel = 1 THEN input.load_data
                         ELSE input.alu_result_value,
     dest_reg |-> input.dest_reg,
     reg_write_en |-> input.reg_write_en]

(***************************************************************************)
(* Register file                                                           *)
(***************************************************************************)
\* variant: the write-first bypass without its test for register 0
RegFileRead_BypassZero(rf, rd_addr, wr_en, wr_addr, wr_data) ==
    IF wr_en = 1 /\ wr_addr = rd_addr THEN wr_data
    ELSE IF rd_addr = 0 THEN 0
    ELSE rf[rd_addr]

\* variant: read ports that return the stored value only (read-first)
RegFileRead_NoBypass(rf, rd_addr, wr_en, wr_addr, wr_data) ==
    IF rd_addr = 0 THEN 0 ELSE rf[rd_addr]

\* a read port: register 0 reads 0, and a write in flight to the same
\* non-zero register is returned instead of the stored value (write-first)
RegFileRead(rf, rd_addr, wr_en, wr_addr, wr_data) ==
    IF wr_en = 1 /\ wr_addr # 0 /\ wr_addr = rd_addr THEN wr_data
    ELSE IF rd_addr = 0 THEN 0
    ELSE rf[rd_addr]

\* variant: a write port that ignores its enable
RegFileWrite_IgnoreEnable(rf, wr_en, wr_addr, wr_data) ==
    IF wr_addr # 0 THEN [rf EXCEPT ![wr_addr] = wr_data] ELSE rf

\* the register array after the clock edge
RegFileWrite(rf, wr_en, wr_addr, wr_data) ==
    IF wr_en = 1 /\ wr_addr # 0 THEN [rf EXCEPT ![wr_addr] = wr_data] ELSE rf

(***************************************************************************)
(* Program counter                                                         *)
(***************************************************************************)
\* addr_out = pc_reg << 2, pc_reg a 30-bit register
PCAddrOut(reg) == Word(reg \div 16384, (reg % 16384) * 4)

\* addr_in >> 2, kept to 30 bits
PCLoad(addr_in) == (Hi(addr_in) % Half) * 16384 + Lo(addr_in) \div 4

\* variant: a PC whose load enable takes priority over reset
PCRegister_EnableFirst(reg, reset, enable, addr_in) ==
    IF enable THEN PCLoad(addr_in) ELSE IF reset THEN 0 ELSE reg

\* variant: a PC that loads on every edge without reset
PCRegister_IgnoreEnable(reg, reset, enable, addr_in) ==
    IF reset THEN 0 ELSE PCLoad(addr_in)

PCRegister(reg, reset, enable, addr_in) ==
    IF reset THEN 0 ELSE IF enable THEN PCLoad(addr_in) ELSE reg

\* variant: a controller that enables the PC load under a stall too
PCController_NoStall(stall, id_next_pc) == [enable |-> TRUE, addr_in |-> id_next_pc]

\* enable and addr_in driven into the PC: a stall disables the load
PCController(stall, id_next_pc) ==
    IF stall THEN [enable |-> FALSE, addr_in |-> 0]
    ELSE [enable |-> TRUE, addr_in |-> id_next_pc]

(***************************************************************************)
(* Fetch stage and the pipeline registers                                  *)
(***************************************************************************)
\* variant: a fetch stage that always addresses the memory with the PC
FetchImemAddr_AlwaysPc(pc_current, prev, stall) == pc_current

\* imem_addr: the previous PC while stalling, else the PC
FetchImemAddr(pc_current, prev, stall) == IF stall THEN prev ELSE pc_current

\* variant: a fetch stage that ignores flush_request
InstructionFetchStage_NoFlush(pc_current, prev, btb_hit, btb_predicted_taken, btb_predicted, imem_data_in, flush, stall, reset) ==
    [inst_word |-> IF reset THEN 0 ELSE imem_data_in,
     next_pc |-> IF btb_hit = 1 /\ btb_predicted_taken = 1 THEN btb_predicted
                 ELSE WordAdd(pc_current, 4),
     current_pc |-> IF stall THEN prev ELSE pc_current]

\* variant: a fetch stage that takes the BTB's target without testing hit
InstructionFetchStage_NoHitTest(pc_current, prev, btb_hit, btb_predicted_taken, btb_predicted, imem_data_in, flush, stall, reset) ==
    [inst_word |-> IF reset \/ flush THEN 0 ELSE imem_data_in,
     next_pc |-> btb_predicted,
     current_pc |-> IF stall THEN prev ELSE pc_current]

\* variant: a fetch stage whose reset also clears the PCs it hands to IF/ID
InstructionFetchStage_ResetClearsPcs(pc_current, prev, btb_hit, btb_predicted_taken, btb_predicted, imem_data_in, flush, stall, reset) ==
    [inst_word |-> IF reset \/ flush THEN 0 ELSE imem_data_in,
     next_pc |-> IF reset THEN 0
                 ELSE IF btb_hit = 1 /\ btb_predicted_taken = 1 THEN btb_predicted
                 ELSE WordAdd(pc_current, 4),
     current_pc |-> IF reset THEN 0 ELSE IF stall THEN prev ELSE pc_current]

\* the IF stage bus driven into IF/ID
InstructionFetchStage(pc_current, prev, btb_hit, btb_predicted_taken, btb_predicted, imem_data_in, flush, stall, reset) ==
    [inst_word |-> IF reset \/ flush THEN 0 ELSE imem_data_in,
     next_pc |-> IF btb_hit = 1 /\ btb_predicted_taken = 1 THEN btb_predicted
                 ELSE WordAdd(pc_current, 4),
     current_pc |-> IF stall THEN prev ELSE pc_current]

\* prev_pc of the fetch stage after the clock edge
FetchPrevPc(prev, pc_current, stall, reset) ==
    IF reset THEN 0 ELSE IF ~stall THEN pc_current ELSE prev

\* variant: an IF/ID register without the hold under stall
IFIDRegister_NoHold(output, input, stall) == input

IFIDRegister(output, input, stall) == IF ~stall THEN input ELSE output

\* variant: an ID/EX register that latches the enables under a stall too
IDEXRegister_NoBubble(input, stall) == input

\* variant: an ID/EX register that clears only the memory enables under a
\* stall
IDEXRegister_KeepsWriteEnable(input, stall) ==
    IF stall
    THEN [input EXCEPT !.mem_read_en = 0, !.mem_write_en = 0]
    ELSE input

\* data fields always latch; the three enables latch as 0 under a stall
IDEXRegister(input, stall) ==
    IF stall
    THEN [input EXCEPT !.mem_read_en = 0, !.mem_write_en = 0, !.reg_write_en = 0]
    ELSE input

EXMEMRegister(input) == input

MEMWBRegister(input) == input

(***************************************************************************)
(* Memories attached by the benches                                        *)
(***************************************************************************)
ImemDepth == 512

DmemDepth == 512

\* instruction memory, combinational read: the word at the PC's word index,
\* 0 where the program loader wrote nothing
ImemRead(mem, addr) ==
    LET idx == Bits(addr, 2, 30) % ImemDepth
    IN  IF idx < Len(mem) THEN mem[idx + 1] ELSE 0

\* data memory: the address port is the low bits of the address
DmemIndex(addr) == addr % DmemDepth

DmemWord(mem, idx) == IF idx \in DOMAIN mem THEN mem[idx] ELSE 0

\* the array after the clock edge
DmemWrite(mem, write_enable, write_addr, write_data) ==
    IF write_enable = 1
    THEN [i \in DOMAIN mem \cup {DmemIndex(write_addr)} |->
             IF i = DmemIndex(write_addr) THEN write_data ELSE mem[i]]
    ELSE mem

\* variant: a read port that is not transparent to the write of the same edge
DmemReadPort_NotTransparent(mem, read_addr, write_enable, write_addr, write_data) ==
    DmemWord(mem, DmemIndex(read_addr))

\* the registered read port after the clock edge, transparent to the write
\* of the same edge
DmemReadPort(mem, read_addr, write_enable, write_addr, write_data) ==
    IF write_enable = 1 /\ DmemIndex(write_addr) = DmemIndex(read_addr)
    THEN write_data
    ELSE DmemWord(mem, DmemIndex(read_addr))

(***************************************************************************)
(* Sequential reference: the instruction set executed one instruction at a *)
(* time on the architectural state (PC, registers, data memory), with the  *)
(* same memories attached                                                  *)
(***************************************************************************)
RefReg(st, i) == IF i = 0 THEN 0 ELSE st.regs[i]

RefSetReg(st, i, v, next) ==
    [st EXCEPT !.regs = IF i = 0 THEN @ ELSE [@ EXCEPT ![i] = v],
               !.commits = IF i = 0 THEN @ ELSE @ + 1,
               !.pc = next]

RefStep(prog, st) ==
    LET w     == ImemRead(prog, st.pc)
        op    == OpcodeOf(w)
        a     == RefReg(st, RsOf(w))
        b     == RefReg(st, RtOf(w))
        simm  == SignExt16(ImmOf(w))
        zimm  == ZeroExt16(ImmOf(w))
        pc4   == WordAdd(st.pc, 4)
        btgt  == WordAdd(pc4, Shl2(simm))
        ea    == WordAdd(a, simm)
    IN  CASE op = R_TYPE /\ FunctOf(w) = F_ADD -> RefSetReg(st, RdOf(w), WordAdd(a, b), pc4)
          [] op = R_TYPE /\ FunctOf(w) = F_SUB -> RefSetReg(st, RdOf(w), WordSub(a, b), pc4)
          [] op = R_TYPE /\ FunctOf(w) = F_AND -> RefSetReg(st, RdOf(w), WordAnd(a, b), pc4)
          [] op = R_TYPE /\ FunctOf(w) = F_OR  -> RefSetReg(st, RdOf(w), WordOr(a, b), pc4)
          [] op = ADDI -> RefSetReg(st, RtOf(w), WordAdd(a, simm), pc4)
          [] op = ANDI -> RefSetReg(st, RtOf(w), WordAnd(a, zimm), pc4)
          [] op = ORI  -> RefSetReg(st, RtOf(w), WordOr(a, zimm), pc4)
          [] op = LW   -> RefSetReg(st, RtOf(w), DmemWord(st.mem, DmemIndex(ea)), pc4)
          [] op = SW   -> [st EXCEPT !.mem = DmemWrite(@, 1, ea, b),
                                     !.writes = Append(@, <<ea, b>>),
                                     !.pc = pc4]
          [] op = BEQ  -> [st EXCEPT !.pc = IF a = b THEN btgt ELSE pc4]
          [] op = BNE  -> [st EXCEPT !.pc = IF a # b THEN btgt ELSE pc4]
          [] op = J    -> [st EXCEPT !.pc = JumpAddr(w, pc4)]
          [] op = JAL  -> RefSetReg(st, 31, pc4, JumpAddr(w, pc4))
          [] op = R_TYPE /\ FunctOf(w) = F_JR -> [st EXCEPT !.pc = a]
          [] OTHER     -> [st EXCEPT !.pc = pc4]

RECURSIVE RefRun(_, _, _)
RefRun(prog, st, n) ==
    IF n = 0 THEN st
    ELSE CHOOSE r \in {RefRun(prog, s, n - 1) : s \in {RefStep(prog, st)}} : TRUE

(***************************************************************************)
(* Branch target buffer (a component the CPU does not instantiate)         *)
(***************************************************************************)
\* BranchTargetBuffer.__init__(self, size=16)
BtbSize == 16

\* int.bit_length()
RECURSIVE BitLength(_)
BitLength(n) == IF n = 0 THEN 0 ELSE 1 + BitLength(n \div 2)

\* index = Signal(self.size.bit_length(), reset=0): the values it can hold
BtbIndexModulus == 2 ^ BitLength(BtbSize)

BtbSlots == 0 .. BtbSize - 1

\* Array indexing: an index past the end selects the last element
ArraySlot(idx) == IF idx < BtbSize THEN idx ELSE BtbSize - 1

\* amaranth.lib.coding.Encoder: with exactly one input bit set, n = 0 and o
\* is that bit's position; otherwise n = 1 and o = 0
Encoder(i) ==
    LET hot == {k \in DOMAIN i : i[k]}
    IN  IF Cardinality(hot) = 1
        THEN [o |-> CHOOSE k \in hot : TRUE, n |-> 0]
        ELSE [o |-> 0, n |-> 1]

\* tag_array[i] << 2
BtbTagAddr(b, i) == Word(b.tag_array[i] \div 16384, (b.tag_array[i] % 16384) * 4)

\* lookup_match: the bare names of elaborate() read as the ports of the
\* same name
BtbLookupMatch(b) == [i \in BtbSlots |-> b.lookup_addr = BtbTagAddr(b, i)]

\* the lookup outputs; target_addr is never driven and keeps its reset value
BtbLookup(b) ==
    LET encoder == Encoder(BtbLookupMatch(b))
    IN  [hit |-> 1 - encoder.n,
         predicted |-> b.predicted_array[encoder.o],
         target_addr |-> 0]

BtbUpdateMatch(b) == [i \in BtbSlots |-> b.update_addr = BtbTagAddr(b, i)]

\* the arrays and the index after a clock edge: with update_enable, a
\* one-hot update_match (encoder.n == 0) writes tag and target at index and
\* advances index; otherwise target_array[encoder.o] is written
BtbUpdate(b) ==
    LET encoder == Encoder(BtbUpdateMatch(b))
        slot    == ArraySlot(b.index)
    IN  IF b.update_enable = 0 THEN b
        ELSE IF encoder.n = 0
        THEN [b EXCEPT !.tag_array[slot] = PCLoad(b.update_addr),
                       !.target_array[slot] = PCLoad(b.update_target),
                       !.index = (b.index + 1) % BtbIndexModulus]
        ELSE [b EXCEPT !.target_array[encoder.o] = PCLoad(b.update_target)]

\* the arrays after construction, the inputs low
BtbReset ==
    [index |-> 0,
     tag_array |-> [i \in BtbSlots |-> 0],
     target_array |-> [i \in BtbSlots |-> 0],
     predicted_array |-> [i \in BtbSlots |-> 0],
     lookup_addr |-> 0, update_addr |-> 0, update_target |-> 0, update_enable |-> 0]

(***************************************************************************)
(* Timer peripheral                                                        *)
(***************************************************************************)
\* self._max_count = int(clk_freq * timeout)
TimerMaxCount == 3

\* flag: combinational, high with en once the counter has reached max_count
TimerFlag(t) == IF t.en = 1 /\ ~(t.counter < TimerMaxCount) THEN 1 ELSE 0

\* variant: a counter that is held, not cleared, while en is low
TimerCount_NoRestart(t) ==
    IF t.en = 1
    THEN (IF t.counter < TimerMaxCount THEN t.counter + 1 ELSE t.counter)
    ELSE t.counter

\* counter after a clock edge
TimerCount(t) ==
    IF t.en = 1
    THEN (IF t.counter < TimerMaxCount THEN t.counter + 1 ELSE t.counter)
    ELSE 0

\* counter and the en input after construction
TimerReset == [counter |-> 0, en |-> 0]

(***************************************************************************)
(* State                                                                   *)
(***************************************************************************)
VARIABLES
    imem,        \* instruction memory contents (the loaded program)
    dmem,        \* data memory array
    dmem_rdata,  \* data memory read port register
    pc_reg,      \* PC: the 30-bit register
    prev_pc,     \* fetch stage: PC of the previous un-stalled cycle
    regs,        \* register file array
    if_id,       \* IF/ID latch
    id_ex,       \* ID/EX latch
    ex_mem,      \* EX/MEM latch
    mem_wb,      \* MEM/WB latch
    cycle,       \* clock edges since power-on
    writes,      \* history: the data-memory writes issued, in order
    tag,         \* history: which latches hold a fetched instruction
    retired,     \* history: number of fetched instructions past write-back
    commits,     \* history: number of writes made to the register array
    ref,         \* history: the sequential machine after `retired` instructions
    regs0,       \* history: register file at power-on
    dmem0,       \* history: data memory image at power-on
    btb,         \* branch target buffer: arrays, index and input ports
    timer        \* timer peripheral: counter and the en input

vars == <<imem, dmem, dmem_rdata, pc_reg, prev_pc, regs, if_id, id_ex, ex_mem,
          mem_wb, cycle, writes, tag, retired, commits, ref, regs0, dmem0,
          btb, timer>>

(***************************************************************************)
(* Combinational signals of the CPU, as wired in CPU.elaborate             *)
(***************************************************************************)
pc_current == PCAddrOut(pc_reg)

writeback_out == WriteBackStage(mem_wb)

rs_value_in ==
    RegFileRead(regs, RsOf(if_id.inst_word), writeback_out.reg_write_en,
                writeback_out.dest_reg, writeback_out.write_back_data)

rt_value_in ==
    RegFileRead(regs, RtOf(if_id.inst_word), writeback_out.reg_write_en,
                writeback_out.dest_reg, writeback_out.write_back_data)

decode_out == InstructionDecodeStage(if_id, rs_value_in, rt_value_in)

flush_request == DecodeFlush(if_id, rs_value_in, rt_value_in)

hazard_source ==
    [id_ex_mem_read_en |-> id_ex.mem_read_en,
     id_ex_dest_reg |-> id_ex.dest_reg,
     id_ex_reg_write_en |-> id_ex.reg_write_en,
     ex_mem_reg_write_en |-> ex_mem.reg_write_en,
     ex_mem_dest_reg |-> ex_mem.dest_reg]

pipeline_stall ==
    \/ HazardDetectionUnit(RsOf(if_id.inst_word), OpcodeOf(if_id.inst_word), hazard_source)
    \/ HazardDetectionUnit(RtOf(if_id.inst_word), OpcodeOf(if_id.inst_word), hazard_source)

forwarding_source ==
    [ex_mem_reg_write_en |-> ex_mem.reg_write_en,
     ex_mem_dest_reg |-> ex_mem.dest_reg,
     ex_mem_forward_value |-> ex_mem.alu_result_value,
     mem_wb_reg_write_en |-> mem_wb.reg_write_en,
     mem_wb_dest_reg |-> mem_wb.dest_reg,
     mem_wb_forward_value |-> writeback_out.write_back_data]

forwarding_rs == ForwardingUnit(id_ex.rs_index, id_ex.rs_value, forwarding_source)

forwarding_rt == ForwardingUnit(id_ex.rt_index, id_ex.rt_value, forwarding_source)

execute_out == ExecuteStage(id_ex, forwarding_rs, forwarding_rt)

memory_out == MemoryStage(ex_mem, dmem_rdata)

memory_write == MemoryStageWrite(ex_mem)

imem_addr == FetchImemAddr(pc_current, prev_pc, pipeline_stall)

\* the BTB inputs of the fetch stage are left unconnected by the CPU: they read 0
fetch_out(reset) ==
    InstructionFetchStage(pc_current, prev_pc, 0, 0, 0, ImemRead(imem, imem_addr),
                          flush_request, pipeline_stall, reset)

\* variant: a next-PC selection that ignores flush_request
next_pc_sel_FetchOnly(reset) == fetch_out(reset).next_pc

next_pc_sel(reset) ==
    IF flush_request THEN decode_out.next_pc ELSE fetch_out(reset).next_pc

pc_controller_out(reset) == PCController(pipeline_stall, next_pc_sel(reset))

(***************************************************************************)
(* Bounds of the model and the inputs drawn in Init                        *)
(***************************************************************************)
\* length of the enumerated programs
ProgLen == 3

\* clock edges simulated in one run
MaxCycles == 13

\* cycles the bench holds reset before it releases the CPU (load_program)
ResetCycles == 2

LW_1_0_2 == encode_i_type(LW, 2, 1, 0)

ADD_3_1_4 == encode_r_type(R_TYPE, 1, 4, 3, 0, F_ADD)

ADD_1_2_3 == encode_r_type(R_TYPE, 2, 3, 1, 0, F_ADD)

SUB_4_1_5 == encode_r_type(R_TYPE, 1, 5, 4, 0, F_SUB)

ADDI_4_2_m4 == encode_i_type(ADDI, 2, 4, -4)

SW_3_4_1 == encode_i_type(SW, 1, 3, 4)

BEQ_1_4_p1 == encode_i_type(BEQ, 1, 4, 1)

BNE_3_0_m2 == encode_i_type(BNE, 3, 0, -2)

J_2 == encode_j_type(J, 2)

AND_0_1_4 == encode_r_type(R_TYPE, 1, 4, 0, 0, F_AND)

SW_0_8_0 == encode_i_type(SW, 0, 0, 8)

\* ADDI r1,r0,5; BNE r1,r0,L; ADDI r2,r0,99; NOP; L: ADDI r3,r0,1; SW r2,8(r0)
BranchFlush ==
    <<encode_i_type(ADDI, 0, 1, 5), encode_i_type(BNE, 1, 0, 2),
      encode_i_type(ADDI, 0, 2, 99), nop, encode_i_type(ADDI, 0, 3, 1),
      encode_i_type(SW, 0, 2, 8)>>

\* one instruction at least of every kind of the supported subset, over
\* registers 0..5
Pool ==
    { nop,
      LW_1_0_2,                                   \* LW   $1, 0($2)
      ADD_1_2_3,                                  \* ADD  $1, $2, $3
      SUB_4_1_5,                                  \* SUB  $4, $1, $5
      AND_0_1_4,                                  \* AND  $0, $1, $4
      encode_r_type(R_TYPE, 3, 4, 2, 0, F_OR),    \* OR   $2, $3, $4
      ADDI_4_2_m4,                                \* ADDI $4, $2, -4
      encode_i_type(ANDI, 1, 3, 65532),           \* ANDI $3, $1, 0xFFFC
      encode_i_type(ORI, 0, 1, 32776),            \* ORI  $1, $0, 0x8008
      SW_3_4_1,                                   \* SW   $3, 4($1)
      BEQ_1_4_p1,                                 \* BEQ  $1, $4, +1
      BNE_3_0_m2,                                 \* BNE  $3, $0, -2
      J_2 }                                       \* J    word 2

RegFileOf(r1, r2, r3, r4, r5) ==
    [i \in 0 .. 31 |->
        CASE i = 1 -> r1 [] i = 2 -> r2 [] i = 3 -> r3 [] i = 4 -> r4 [] i = 5 -> r5
          [] OTHER -> 0]

\* register files a run may start from: the power-on contents (all zero) and
\* contents left by earlier runs (reset does not clear the register file)
RegPresets ==
    { RegFileOf(0, 0, 0, 0, 0),
      RegFileOf(12, 8, 2147483647, 12, -3),
      RegFileOf(-1, 16, -2147483647, 5, 5),
      RegFileOf(5, 4, -8, -1, 2147483647) }

\* data memory images, indexed by address
DmemPresets ==
    { [i \in {0, 4, 8, 12, 16} |-> CASE i = 8 -> 12 [] i = 12 -> 8 [] OTHER -> i + 1],
      [i \in {8, 16} |-> IF i = 8 THEN -2147483647 ELSE 2147483647] }

\* the start of the exhaustively enumerated programs
BaseRegs == RegFileOf(12, 8, 2147483647, 12, -3)

BaseDmem == [i \in {0, 4, 8, 12, 16} |-> CASE i = 8 -> 12 [] i = 12 -> 8 [] OTHER -> i + 1]

\* SW r1,0(r2); LW r5,0(r2); ADD r3,r5,r1; SW r3,4(r2): the store, load and
\* use of the load-use bench, on the preset registers
StoreLoadUse ==
    <<encode_i_type(SW, 2, 1, 0), encode_i_type(LW, 2, 5, 0),
      encode_r_type(R_TYPE, 5, 1, 3, 0, F_ADD), encode_i_type(SW, 2, 3, 4)>>

\* programs run from every preset: the sequences the benches and the
\* testable properties name, and dependences three instructions apart
\* LW r0,0(r2); ADD r3,r0,r4: a load into register 0 and a reader of register 0
LoadZeroUse == <<encode_i_type(LW, 2, 0, 0), encode_r_type(R_TYPE, 0, 4, 3, 0, F_ADD)>>

\* ADDI $1,$0,5 with a BEQ on $1 right behind it
AluThenBranch ==
    <<encode_i_type(ADDI, 0, 1, 5), encode_i_type(BEQ, 1, 0, 2),
      encode_i_type(ADDI, 0, 2, 99), nop, encode_i_type(ADDI, 0, 3, 1),
      encode_i_type(SW, 0, 2, 8)>>

Scenarios ==
    { StoreLoadUse,
      LoadZeroUse,
      <<LW_1_0_2, ADD_3_1_4>>,
      <<LW_1_0_2, nop, ADD_3_1_4>>,
      <<ADD_1_2_3, SUB_4_1_5>>,
      <<ADD_1_2_3, nop, SUB_4_1_5>>,
      <<ADD_1_2_3, nop, nop, SUB_4_1_5, SW_3_4_1>>,
      <<ADDI_4_2_m4, nop, nop, BEQ_1_4_p1, SW_3_4_1, SW_3_4_1>>,
      <<LW_1_0_2, nop, nop, BEQ_1_4_p1, SW_3_4_1, SW_3_4_1>>,
      <<LW_1_0_2, BEQ_1_4_p1, SW_3_4_1, SW_3_4_1>>,
      <<ADD_3_1_4, SW_3_4_1, LW_1_0_2, BNE_3_0_m2>>,
      <<AND_0_1_4, nop, nop, SW_0_8_0>>,
      BranchFlush,
      AluThenBranch }

ZeroIFID == [inst_word |-> 0, next_pc |-> 0, current_pc |-> 0]

ZeroIDEX ==
    [rs_index |-> 0, rt_index |-> 0, rs_value |-> 0, rt_value |-> 0, imm_value |-> 0,
     shift_amount |-> 0, alu_opcode |-> 0, alu_operand_sel |-> 0, mem_read_en |-> 0,
     mem_write_en |-> 0, dest_reg |-> 0, reg_write_en |-> 0, mem_to_reg_sel |-> 0,
     next_pc |-> 0]

ZeroEXMEM ==
    [alu_result_value |-> 0, store_data |-> 0, mem_read_en |-> 0, mem_write_en |-> 0,
     dest_reg |-> 0, reg_write_en |-> 0, mem_to_reg_sel |-> 0]

ZeroMEMWB ==
    [alu_result_value |-> 0, load_data |-> 0, dest_reg |-> 0, reg_write_en |-> 0,
     mem_to_reg_sel |-> 0]

Programs == [1 .. ProgLen -> Pool]

(***************************************************************************)
(* Init: every signal at its reset value, the program loaded, the bench    *)
(* about to assert reset                                                   *)
(***************************************************************************)
Init ==
    /\ \/ imem \in Programs /\ regs = BaseRegs /\ dmem = BaseDmem
       \/ imem \in Scenarios /\ regs \in RegPresets /\ dmem \in DmemPresets
    /\ regs0 = regs
    /\ dmem0 = dmem
    /\ dmem_rdata = 0
    /\ pc_reg = 0
    /\ prev_pc = 0
    /\ if_id = ZeroIFID
    /\ id_ex = ZeroIDEX
    /\ ex_mem = ZeroEXMEM
    /\ mem_wb = ZeroMEMWB
    /\ cycle = 0
    /\ writes = <<>>
    /\ tag = [ifid |-> FALSE, idex |-> FALSE, exmem |-> FALSE, memwb |-> FALSE]
    /\ retired = 0
    /\ commits = 0
    /\ ref = [pc |-> 0, regs |-> regs, mem |-> dmem, writes |-> <<>>, commits |-> 0]
    /\ btb = BtbReset
    /\ timer = TimerReset

(***************************************************************************)
(* One clock edge of the whole system, with the reset input as given       *)
(***************************************************************************)
Clock(reset) ==
    LET stall == pipeline_stall
        flush == flush_request
        pcc   == pc_controller_out(reset)
        wb    == writeback_out
        mw    == memory_write
        ex    == execute_out
    IN  /\ pc_reg' = PCRegister(pc_reg, reset, pcc.enable, pcc.addr_in)
        /\ prev_pc' = FetchPrevPc(prev_pc, pc_current, stall, reset)
        /\ if_id' = IFIDRegister(if_id, fetch_out(reset), stall)
        /\ id_ex' = IDEXRegister(decode_out, stall)
        /\ ex_mem' = EXMEMRegister(ex)
        /\ mem_wb' = MEMWBRegister(memory_out)
        /\ regs' = RegFileWrite(regs, wb.reg_write_en, wb.dest_reg, wb.write_back_data)
        /\ dmem' = DmemWrite(dmem, mw.mem_write_en_out, mw.mem_addr_out,
                             mw.mem_write_data_out)
        /\ dmem_rdata' = DmemReadPort(dmem, ex.alu_result_value, mw.mem_write_en_out,
                                      mw.mem_addr_out, mw.mem_write_data_out)
        /\ cycle' = cycle + 1
        /\ writes' = IF mw.mem_write_en_out = 1
                     THEN Append(writes, <<mw.mem_addr_out, mw.mem_write_data_out>>)
                     ELSE writes
        /\ tag' = [ifid  |-> IF stall THEN tag.ifid ELSE ~reset /\ ~flush,
                   idex  |-> tag.ifid /\ ~stall,
                   exmem |-> tag.idex,
                   memwb |-> tag.exmem]
        /\ retired' = retired + (IF tag.memwb THEN 1 ELSE 0)
        /\ commits' = commits + (IF wb.reg_write_en = 1 /\ wb.dest_reg # 0 THEN 1 ELSE 0)
        /\ ref' = IF tag.memwb THEN RefStep(imem, ref) ELSE ref
        /\ UNCHANGED <<imem, regs0, dmem0, btb, timer>>

\* the bench holds reset for the first ResetCycles edges
ResetTick == cycle < ResetCycles /\ Clock(TRUE)

Tick == cycle >= ResetCycles /\ cycle < MaxCycles /\ Clock(FALSE)

Next == ResetTick \/ Tick

Spec == Init /\ [][Next]_vars

(***************************************************************************)
(* The run compared with the sequential reference                          *)
(***************************************************************************)
\* the reference started where the run started
RefStart == [pc |-> 0, regs |-> regs0, mem |-> dmem0, writes |-> <<>>, commits |-> 0]

\* the fetched instruction in write-back, if any, has left the MEM stage
InWriteBack == IF tag.memwb THEN 1 ELSE 0

\* fetched instructions between decode and retirement
PastDecode ==
    InWriteBack + (IF tag.exmem THEN 1 ELSE 0) + (IF tag.idex THEN 1 ELSE 0)

\* the sequential machine k instructions after the retired ones
RefAhead(k) == RefRun(imem, ref, k)

\* fetched instructions older than the one in decode
OlderThanDecode == retired + PastDecode

(***************************************************************************)
(* C1: from reset, the data-memory writes (address, data) issued so far    *)
(* are exactly the writes of the sequential reference after the same       *)
(* number of instructions: none missing, none extra, none different.       *)
(***************************************************************************)
C1_WritesMatchReference == writes = RefAhead(InWriteBack).writes

\* a run whose stores follow a load-use stall and a taken-branch flush
C1_Witness ==
    /\ Len(writes) >= 2
    /\ retired >= 3
    /\ writes[1] # writes[2]
    /\ writes = RefAhead(InWriteBack).writes

(***************************************************************************)
(* C2: register 0                                                          *)
(***************************************************************************)
\* what the two read ports return when decode addresses register 0
ZeroReads ==
    /\ RsOf(if_id.inst_word) = 0 => rs_value_in = 0
    /\ RtOf(if_id.inst_word) = 0 => rt_value_in = 0

\* the write port is asked to write register 0
WriteToZero == writeback_out.reg_write_en = 1 /\ writeback_out.dest_reg = 0

\* C2: in every state, before and after every clock edge, a read port
\* addressed with index 0 returns 0 (also while the write port is asked to
\* write register 0, where the write-first bypass must not return wr_data),
\* and an edge at which wr_en = 1 and wr_addr = 0 changes no register.
C2_RegisterZero ==
    [][ZeroReads /\ ZeroReads' /\ (WriteToZero => regs' = regs)]_vars

\* a non-zero value is on the write port for register 0 while both read
\* ports are addressed with index 0 by a fetched store, and both return 0
C2_Witness ==
    /\ WriteToZero
    /\ tag.memwb
    /\ writeback_out.write_back_data # 0
    /\ if_id.inst_word = SW_0_8_0
    /\ tag.ifid
    /\ rs_value_in = 0
    /\ rt_value_in = 0
    /\ regs[0] = 0

(***************************************************************************)
(* C3: a load followed at once by its consumer                             *)
(***************************************************************************)
LoadUse == <<LW_1_0_2, ADD_3_1_4>>

LoadNopUse == <<LW_1_0_2, nop, ADD_3_1_4>>

\* the word the load reads: Mem[r2 + 0]
LoadedWord == DmemWord(dmem0, DmemIndex(WordAdd(regs0[2], SignExt16(0))))

\* C3: once `LW r1,0(r2); ADD r3,r1,r4` has gone through write-back, r3 holds
\* Mem[r2] + r4 (mod 2^32), which is also what the one-at-a-time execution
\* of `LW r1,0(r2); NOP; ADD r3,r1,r4` leaves in r3, and r1 holds Mem[r2].
C3_LoadUseSeesLoadedData ==
    (imem = LoadUse /\ retired >= 2) =>
        /\ regs[3] = WordAdd(LoadedWord, regs0[4])
        /\ regs[3] = RefRun(LoadNopUse, RefStart, 3).regs[3]
        /\ regs[1] = LoadedWord

\* the pair has retired from a start where the loaded word, the old r1 and
\* the load address give three different sums
C3_Witness ==
    /\ imem = LoadUse
    /\ retired >= 2
    /\ regs[3] = WordAdd(LoadedWord, regs0[4])
    /\ regs[3] # WordAdd(regs0[1], regs0[4])
    /\ regs[3] # WordAdd(regs0[2], regs0[4])
    /\ regs[3] # regs0[3]

(***************************************************************************)
(* C4: forwarding from EX/MEM and from MEM/WB                              *)
(***************************************************************************)
AddSub == <<ADD_1_2_3, SUB_4_1_5>>

AddNopSub == <<ADD_1_2_3, nop, SUB_4_1_5>>

\* C4: in the runs of `ADD r1,r2,r3; SUB r4,r1,r5` and of
\* `ADD r1,r2,r3; NOP; SUB r4,r1,r5` the stall signal is never asserted, and
\* once the SUB has gone through write-back r4 = ((r2 + r3) - r5) mod 2^32.
C4_ForwardedWithoutStall ==
    (imem \in {AddSub, AddNopSub}) =>
        /\ ~pipeline_stall
        /\ retired >= Len(imem) =>
               regs[4] = WordSub(WordAdd(regs0[2], regs0[3]), regs0[5])

\* the back-to-back pair has retired at the earliest edge a run without a
\* stall allows, r2 + r3 wrapped around, and the result differs from what
\* the old r1 would have given
C4_Witness ==
    /\ imem = AddSub
    /\ retired >= 2
    /\ cycle = ResetCycles + 6
    /\ regs0[2] > 0 /\ regs0[3] > 0 /\ WordAdd(regs0[2], regs0[3]) < 0
    /\ regs[4] = WordSub(WordAdd(regs0[2], regs0[3]), regs0[5])
    /\ regs[4] # WordSub(regs0[1], regs0[5])
    /\ regs[4] # regs0[4]

(***************************************************************************)
(* C5: operands of a branch resolved in decode                             *)
(***************************************************************************)
\* a fetched BEQ or BNE is in decode and the stall signal is low
BranchResolves ==
    /\ tag.ifid
    /\ OpcodeOf(if_id.inst_word) \in {BEQ, BNE}
    /\ ~pipeline_stall

\* the registers after every instruction older than the one in decode
ArchBeforeDecode == RefAhead(PastDecode)

\* C5: whenever a BEQ or BNE is in decode with the stall signal low, the two
\* values decode compares are the values rs and rt have once every older
\* instruction of the program has completed.
C5_BranchOperandsCurrent ==
    BranchResolves =>
        /\ rs_value_in = RefReg(ArchBeforeDecode, RsOf(if_id.inst_word))
        /\ rt_value_in = RefReg(ArchBeforeDecode, RtOf(if_id.inst_word))

\* a branch issued right behind a load of its rs resolves on the loaded
\* word, which is neither the old register value nor yet in the array
C5_Witness ==
    /\ imem[1] = LW_1_0_2
    /\ imem[2] = BEQ_1_4_p1
    /\ BranchResolves
    /\ if_id.inst_word = BEQ_1_4_p1
    /\ OlderThanDecode = 1
    /\ rs_value_in = LoadedWord
    /\ rs_value_in # regs0[1]
    /\ rs_value_in # regs[1]

(***************************************************************************)
(* C6: taken branches and jumps                                            *)
(***************************************************************************)
\* the address after the instruction in decode
FallThrough == WordAdd(if_id.current_pc, 4)

\* the target the instruction set gives the branch or jump in decode
ResolvedTarget ==
    IF OpcodeOf(if_id.inst_word) = J
    THEN JumpAddr(if_id.inst_word, FallThrough)
    ELSE WordAdd(FallThrough, Shl2(SignExt16(ImmOf(if_id.inst_word))))

\* whether the sequential machine takes the branch or jump in decode
ResolvesTaken ==
    LET a == RefReg(ArchBeforeDecode, RsOf(if_id.inst_word))
        b == RefReg(ArchBeforeDecode, RtOf(if_id.inst_word))
        op == OpcodeOf(if_id.inst_word)
    IN  \/ op = J
        \/ op = BEQ /\ a = b
        \/ op = BNE /\ a # b

\* decode holds a fetched taken BEQ/BNE or a J whose target is not the
\* next address, in a cycle without stall
TakenRedirect ==
    /\ tag.ifid
    /\ ~pipeline_stall
    /\ OpcodeOf(if_id.inst_word) \in {BEQ, BNE, J}
    /\ ResolvesTaken
    /\ ResolvedTarget # FallThrough

\* the slot right behind an instruction that has just left decode is empty
BubbleBehindBranch == tag.idex /\ ~tag.ifid

\* C6: at the edge that ends the un-stalled decode cycle of a taken BEQ/BNE
\* or a J at A with target T # A+4, the PC is loaded with T and the word
\* fetched from A+4 is dropped: IF/ID receives a NOP in its place, the one
\* bubble behind the branch.  At the next edge IF/ID receives the
\* instruction at T.  A slot that holds no fetched instruction never
\* changes a register or the data memory.
C6_TakenBranchRedirects ==
    [][ /\ TakenRedirect =>
              /\ PCAddrOut(pc_reg') = ResolvedTarget
              /\ if_id'.inst_word = nop
              /\ ~tag'.ifid
              /\ tag'.idex
        /\ BubbleBehindBranch =>
              /\ tag'.ifid
              /\ ~tag'.idex
              /\ if_id'.current_pc = pc_current
              /\ if_id'.inst_word = ImemRead(imem, pc_current)
        /\ ~tag.memwb => regs' = regs
        /\ ~tag.exmem => (dmem' = dmem /\ writes' = writes)
      ]_vars

\* the taken BNE of the flush example has left decode: the PC is at L, and
\* the slot behind the branch is a bubble although the ADDI at A+4 was read
\* from the instruction memory
C6_Witness ==
    /\ imem = BranchFlush
    /\ BubbleBehindBranch
    /\ if_id.inst_word = nop
    /\ if_id.current_pc = 8
    /\ ImemRead(imem, 8) # nop
    /\ pc_current = 16
    /\ regs[2] # 99

(***************************************************************************)
(* The decode stage on its own: IF/ID contents drawn from a bounded set,   *)
(* among them predicted next PCs other than PC+4 (what the fetch stage     *)
(* latches when its branch-target-buffer inputs report a hit)              *)
(***************************************************************************)
JAL_2 == encode_j_type(JAL, 2)

\* NOR $1, $2, $3: R-type, funct outside the seven the decode stage switches on
NOR_1_2_3 == encode_r_type(R_TYPE, 2, 3, 1, 0, F_NOR)

\* LUI $1, 7: an opcode the decode stage has no case for
LUI_1_7 == encode_i_type(LUI, 0, 1, 7)

\* JR $3 and JR $31 (rt = rd = 0, as the assembler of src/main.py encodes it)
JR_3 == encode_r_type(R_TYPE, 3, 0, 0, 0, F_JR)

JR_31 == encode_r_type(R_TYPE, 31, 0, 0, 0, F_JR)

DecodeInstructions == {BEQ_1_4_p1, BNE_3_0_m2, J_2, JAL_2, NOR_1_2_3, LUI_1_7, JR_3, JR_31}

DecodePcs == {0, 4, 12}

\* predictions: sequential, the branch's own target, another address
DecodeInputs ==
    UNION { { [inst_word |-> w, current_pc |-> a, next_pc |-> n] :
                n \in {a + 4, BranchTarget(a, ImmOf(w)), 8} } :
            w \in DecodeInstructions, a \in DecodePcs }

InitDecode ==
    /\ imem = BranchFlush
    /\ dmem \in DmemPresets
    /\ dmem0 = dmem
    /\ dmem_rdata = 0
    /\ regs \in RegPresets
    /\ regs0 = regs
    /\ if_id \in DecodeInputs
    /\ pc_reg = PCLoad(if_id.next_pc)
    /\ prev_pc = if_id.current_pc
    /\ id_ex = ZeroIDEX
    /\ ex_mem = ZeroEXMEM
    /\ mem_wb = ZeroMEMWB
    /\ cycle = ResetCycles
    /\ writes = <<>>
    /\ tag = [ifid |-> TRUE, idex |-> FALSE, exmem |-> FALSE, memwb |-> FALSE]
    /\ retired = 0
    /\ commits = 0
    /\ ref = [pc |-> 0, regs |-> regs, mem |-> dmem, writes |-> <<>>, commits |-> 0]
    /\ btb = BtbReset
    /\ timer = TimerReset

NextDecode == Tick

SpecDecode == InitDecode /\ [][NextDecode]_vars

(***************************************************************************)
(* C7: misprediction recovery                                              *)
(***************************************************************************)
\* the next PC of the BEQ/BNE/J/JAL in decode: its target when taken (on the
\* operand values decode reads), the address after it when not taken
ResolvedNextPc ==
    LET op == OpcodeOf(if_id.inst_word)
    IN  IF op \in {J, JAL} THEN JumpAddr(if_id.inst_word, FallThrough)
        ELSE IF (op = BEQ /\ rs_value_in = rt_value_in)
                  \/ (op = BNE /\ rs_value_in # rt_value_in)
        THEN WordAdd(FallThrough, Shl2(SignExt16(ImmOf(if_id.inst_word))))
        ELSE FallThrough

\* decode holds a BEQ/BNE/J/JAL whose resolved next PC is not the predicted
\* next PC latched with it, in a cycle without stall
Mispredicted ==
    /\ tag.ifid
    /\ ~pipeline_stall
    /\ OpcodeOf(if_id.inst_word) \in {BEQ, BNE, J, JAL}
    /\ ResolvedNextPc # if_id.next_pc

Bubble(e) == e.mem_read_en = 0 /\ e.mem_write_en = 0 /\ e.reg_write_en = 0

\* every register and memory write made so far is the write of one
\* instruction of the sequential run, made once and in order
WritesOnce ==
    /\ commits = ref.commits
    /\ regs = ref.regs
    /\ writes = RefAhead(InWriteBack).writes

\* C8: at an edge with the stall signal asserted ID/EX latches an entry with
\* mem_read_en = mem_write_en = reg_write_en = 0 while the stalled
\* instruction stays in IF/ID; such an entry goes down the pipeline without
\* a register or data-memory write; and the writes made, the stalled
\* instructions' among them, are those of the sequential run, each made
\* exactly once.
C8_StallInjectsBubble ==
    [][ /\ pipeline_stall =>
              /\ Bubble(id_ex')
              /\ if_id' = if_id
        /\ Bubble(id_ex) =>
              /\ ex_mem'.mem_write_en = 0
              /\ ex_mem'.reg_write_en = 0
        /\ ex_mem.mem_write_en = 0 => (dmem' = dmem /\ writes' = writes)
        /\ ex_mem.reg_write_en = 0 => mem_wb'.reg_write_en = 0
        /\ mem_wb.reg_write_en = 0 => (regs' = regs /\ commits' = commits)
        /\ WritesOnce'
      ]_vars

\* the edge of a stall has just passed: ID/EX holds the data fields of the
\* store SW $3,4($1) with its enables zeroed, the store itself is still in
\* IF/ID and now decodes with mem_write_en = 1 and no stall
C8_Witness ==
    /\ tag.ifid
    /\ ~tag.idex
    /\ if_id.inst_word = SW_3_4_1
    /\ id_ex.rs_index = 1
    /\ id_ex.rt_index = 3
    /\ id_ex.imm_value = 4
    /\ Bubble(id_ex)
    /\ ~pipeline_stall
    /\ decode_out.mem_write_en = 1
    /\ writes = <<>>

(***************************************************************************)
(* C9 and C10: the PC update                                               *)
(***************************************************************************)
\* the bench drives reset high for the first ResetCycles edges only
reset_low == cycle >= ResetCycles

\* C9: at every clock edge with the stall signal asserted and reset low, the
\* PC register and the three fields of IF/ID keep their values, also when
\* decode asserts flush_request in that cycle, whatever next PC it resolves
\* and whatever word the instruction memory returns.
C9_StallHoldsPcAndIfId ==
    [][ (pipeline_stall /\ reset_low) =>
            /\ pc_reg' = pc_reg
            /\ if_id'.inst_word = if_id.inst_word
            /\ if_id'.current_pc = if_id.current_pc
            /\ if_id'.next_pc = if_id.next_pc
      ]_vars

\* a stalled branch resolves taken on a stale operand: flush_request is
\* asserted under the stall, decode's next PC and the word the instruction
\* memory returns both differ from what the PC and IF/ID hold
C9_Witness ==
    /\ pipeline_stall
    /\ reset_low
    /\ tag.ifid
    /\ flush_request
    /\ decode_out.next_pc # pc_current
    /\ fetch_out(FALSE).next_pc # if_id.next_pc
    /\ ImemRead(imem, imem_addr) # nop
    /\ fetch_out(FALSE).inst_word # if_id.inst_word

\* C10: at every clock edge with stall and reset both low, the PC after the
\* edge is decode's resolved next PC if decode asserts flush_request in that
\* cycle, and the fetch stage's predicted next PC otherwise.
C10_PcFollowsFlushOrPrediction ==
    [][ (~pipeline_stall /\ reset_low) =>
            PCAddrOut(pc_reg') = IF flush_request THEN decode_out.next_pc
                                 ELSE fetch_out(FALSE).next_pc
      ]_vars

\* a redirect has just been taken: the PC holds the next PC decode resolved
\* (ID/EX latched it with the branch), which is not the fetch stage's
\* prediction for the PC of the cycle before
C10_Witness ==
    /\ BubbleBehindBranch
    /\ cycle > ResetCycles
    /\ pc_current = id_ex.next_pc
    /\ pc_current # WordAdd(prev_pc, 4)
    /\ ~pipeline_stall
    /\ PCAddrOut(PCLoad(fetch_out(FALSE).next_pc)) = WordAdd(pc_current, 4)

(***************************************************************************)
(* Runs in which the reset input is also asserted after the start-up       *)
(* sequence, at any of the first MaxResetCycle edges                       *)
(***************************************************************************)
\* last edge at which the environment may assert reset again
MaxResetCycle == 7

InitReset == Init /\ imem \in Scenarios

MidReset == cycle >= ResetCycles /\ cycle < MaxResetCycle /\ Clock(TRUE)

NextReset == ResetTick \/ Tick \/ MidReset

SpecReset == InitReset /\ [][NextReset]_vars

(***************************************************************************)
(* C11: reset                                                              *)
(***************************************************************************)
\* C11: at every clock edge with reset asserted the PC becomes 0 and the
\* instruction word the fetch stage presents to IF/ID is the all-zero NOP
\* (which IF/ID latches unless it is held by a stall), whatever stall,
\* flush_request and the word returned by the instruction memory are.
C11_ResetClearsPcAndFetch ==
    [][ Clock(TRUE) =>
            /\ PCAddrOut(pc_reg') = 0
            /\ fetch_out(TRUE).inst_word = nop
            /\ ~pipeline_stall => if_id'.inst_word = nop
      ]_vars

\* reset was asserted in a cycle with stall high and the instruction memory
\* returning an instruction: the PC is 0 again while IF/ID still holds the
\* stalled instruction fetched from a later address
C11_Witness ==
    /\ cycle > ResetCycles + 1
    /\ pc_reg = 0
    /\ prev_pc = 0
    /\ if_id.inst_word # nop
    /\ if_id.current_pc # 0
    /\ ImemRead(imem, 0) # nop

ImplementedOpcodes == {R_TYPE, ADDI, ANDI, ORI, SLTI, LW, SW, BEQ, BNE, J, JAL}

ImplementedFuncts == {F_ADD, F_SUB, F_AND, F_OR, F_SLT, F_SLL, F_SRL}

Unrecognized(w) ==
    \/ OpcodeOf(w) \notin ImplementedOpcodes
    \/ OpcodeOf(w) = R_TYPE /\ FunctOf(w) \notin ImplementedFuncts

\* C13: an instruction word whose opcode is not implemented, or whose opcode
\* is R-type with a funct other than ADD, SUB, AND, OR, SLT, SLL, SRL, decodes
\* to the all-zero control bundle (no memory read, no memory write, no
\* register write), so it behaves as a NOP.
C13_UnrecognizedDecodesToNop ==
    (tag.ifid /\ Unrecognized(if_id.inst_word)) => Bubble(decode_out)

(***************************************************************************)
(* Jump-and-link: bench runs of programs that call with JAL                *)
(***************************************************************************)
SW_31_8_0 == encode_i_type(SW, 0, 31, 8)

\* JAL to word 3 of the instruction memory, with address bits 25..21 = 1 and
\* 20..16 = 2: the bits the decode stage also reads as rs and rt
JAL_far == encode_j_type(JAL, 1 * (2 ^ 21) + 2 * (2 ^ 16) + 3)

\* 0: JAL 8; 4: ADDI r2,r0,99; 8: ADDI r3,r0,1; 12: SW r31,8(r0)
JalNear == <<JAL_2, encode_i_type(ADDI, 0, 2, 99), encode_i_type(ADDI, 0, 3, 1), SW_31_8_0>>

\* 0: ADDI r1,r0,5; 4: NOP; 8: NOP; 12: JAL 8; 16: ADDI r2,r0,99 (the JAL
\* is fetched a second time after the jump; the run ends before it retires)
JalLate == <<encode_i_type(ADDI, 0, 1, 5), nop, nop, JAL_2, encode_i_type(ADDI, 0, 2, 99)>>

\* 0: NOP; 4: JAL (word 3); 8: ADDI r2,r0,99; 12: ADDI r3,r0,1; 16: SW r31,8(r0)
JalFar == <<nop, JAL_far, encode_i_type(ADDI, 0, 2, 99), encode_i_type(ADDI, 0, 3, 1), SW_31_8_0>>

JumpScenarios == {JalNear, JalLate, JalFar}

InitJump ==
    /\ imem \in JumpScenarios
    /\ regs \in RegPresets
    /\ dmem \in DmemPresets
    /\ regs0 = regs
    /\ dmem0 = dmem
    /\ dmem_rdata = 0
    /\ pc_reg = 0
    /\ prev_pc = 0
    /\ if_id = ZeroIFID
    /\ id_ex = ZeroIDEX
    /\ ex_mem = ZeroEXMEM
    /\ mem_wb = ZeroMEMWB
    /\ cycle = 0
    /\ writes = <<>>
    /\ tag = [ifid |-> FALSE, idex |-> FALSE, exmem |-> FALSE, memwb |-> FALSE]
    /\ retired = 0
    /\ commits = 0
    /\ ref = [pc |-> 0, regs |-> regs, mem |-> dmem, writes |-> <<>>, commits |-> 0]
    /\ btb = BtbReset
    /\ timer = TimerReset

SpecJump == InitJump /\ [][Next]_vars

\* the instruction in write-back is the one the sequential machine executes
\* next: its address and its word
RetiringPc == ref.pc

RetiringWord == ImemRead(imem, ref.pc)

JalRetires == tag.memwb /\ OpcodeOf(RetiringWord) = JAL

\* C14: at the clock edge where a JAL at address A retires, register 31
\* receives the return address A + 4 (the link value comes from the PC, not
\* from the ALU applied to the registers named by the jump's address bits)
\* and no other register is written.
C14_JalLinksReturnAddress ==
    [][ JalRetires => regs' = [regs EXCEPT ![31] = WordAdd(RetiringPc, 4)] ]_vars

(***************************************************************************)
(* Jump register                                                           *)
(***************************************************************************)
JrInDecode ==
    /\ tag.ifid
    /\ OpcodeOf(if_id.inst_word) = R_TYPE
    /\ FunctOf(if_id.inst_word) = F_JR

\* C15: with an R-type instruction of funct JR in decode, the resolved next
\* PC is the live value of register rs, flush_request is raised exactly when
\* that value differs from the predicted next PC, and no register write is
\* requested.
C15_JrResolvesToRegister ==
    JrInDecode =>
        /\ decode_out.next_pc = rs_value_in
        /\ flush_request <=> rs_value_in # if_id.next_pc
        /\ decode_out.reg_write_en = 0

(***************************************************************************)
(* The Hamming parity-check program run by src/main.py                     *)
(***************************************************************************)
HammingProgram ==
    <<
      encode_i_type(ADDI, 0, 23, -1),  \* 0  main:
      encode_r_type(R_TYPE, 0, 23, 23, 16, F_SLL),  \* 4
      encode_r_type(R_TYPE, 0, 0, 4, 0, F_ADD),  \* 8
      encode_j_type(JAL, 9),  \* 12
      encode_i_type(ADDI, 0, 4, 1),  \* 16
      encode_j_type(JAL, 9),  \* 20
      encode_i_type(ORI, 0, 4, 23),  \* 24
      encode_j_type(JAL, 9),  \* 28
      encode_j_type(J, 8),  \* 32  end_loop:
      encode_r_type(R_TYPE, 31, 0, 20, 0, F_ADD),  \* 36  run_test:
      encode_r_type(R_TYPE, 0, 0, 17, 0, F_ADD),  \* 40
      encode_r_type(R_TYPE, 4, 0, 16, 0, F_ADD),  \* 44
      encode_i_type(ORI, 0, 8, 21845),  \* 48
      encode_r_type(R_TYPE, 16, 8, 9, 0, F_AND),  \* 52
      encode_r_type(R_TYPE, 0, 0, 2, 0, F_ADD),  \* 56
      encode_i_type(ADDI, 0, 10, 16),  \* 60
      encode_i_type(BEQ, 10, 0, 5),  \* 64  s1_loop:
      encode_i_type(ANDI, 9, 11, 1),  \* 68
      encode_r_type(R_TYPE, 2, 11, 2, 0, F_ADD),  \* 72
      encode_r_type(R_TYPE, 0, 9, 9, 1, F_SRL),  \* 76
      encode_i_type(ADDI, 10, 10, -1),  \* 80
      encode_j_type(J, 16),  \* 84
      encode_i_type(ANDI, 2, 2, 1),  \* 88  s1_done:
      encode_r_type(R_TYPE, 17, 2, 17, 0, F_OR),  \* 92
      encode_i_type(ORI, 0, 8, 26214),  \* 96
      encode_r_type(R_TYPE, 16, 8, 9, 0, F_AND),  \* 100
      encode_r_type(R_TYPE, 0, 0, 2, 0, F_ADD),  \* 104
      encode_i_type(ADDI, 0, 10, 16),  \* 108
      encode_i_type(BEQ, 10, 0, 5),  \* 112  s2_loop:
      encode_i_type(ANDI, 9, 11, 1),  \* 116
      encode_r_type(R_TYPE, 2, 11, 2, 0, F_ADD),  \* 120
      encode_r_type(R_TYPE, 0, 9, 9, 1, F_SRL),  \* 124
      encode_i_type(ADDI, 10, 10, -1),  \* 128
      encode_j_type(J, 28),  \* 132
      encode_i_type(ANDI, 2, 2, 1),  \* 136  s2_done:
      encode_r_type(R_TYPE, 0, 2, 2, 1, F_SLL),  \* 140
      encode_r_type(R_TYPE, 17, 2, 17, 0, F_OR),  \* 144
      encode_i_type(ORI, 0, 8, 30840),  \* 148
      encode_r_type(R_TYPE, 16, 8, 9, 0, F_AND),  \* 152
      encode_r_type(R_TYPE, 0, 0, 2, 0, F_ADD),  \* 156
      encode_i_type(ADDI, 0, 10, 16),  \* 160
      encode_i_type(BEQ, 10, 0, 5),  \* 164  s4_loop:
      encode_i_type(ANDI, 9, 11, 1),  \* 168
      encode_r_type(R_TYPE, 2, 11, 2, 0, F_ADD),  \* 172
      encode_r_type(R_TYPE, 0, 9, 9, 1, F_SRL),  \* 176
      encode_i_type(ADDI, 10, 10, -1),  \* 180
      encode_j_type(J, 41),  \* 184
      encode_i_type(ANDI, 2, 2, 1),  \* 188  s4_done:
      encode_r_type(R_TYPE, 0, 2, 2, 2, F_SLL),  \* 192
      encode_r_type(R_TYPE, 17, 2, 17, 0, F_OR),  \* 196
      encode_i_type(ORI, 0, 8, 32640),  \* 200
      encode_r_type(R_TYPE, 16, 8, 9, 0, F_AND),  \* 204
      encode_r_type(R_TYPE, 0, 0, 2, 0, F_ADD),  \* 208
      encode_i_type(ADDI, 0, 10, 16),  \* 212
      encode_i_type(BEQ, 10, 0, 5),  \* 216  s8_loop:
      encode_i_type(ANDI, 9, 11, 1),  \* 220
      encode_r_type(R_TYPE, 2, 11, 2, 0, F_ADD),  \* 224
      encode_r_type(R_TYPE, 0, 9, 9, 1, F_SRL),  \* 228
      encode_i_type(ADDI, 10, 10, -1),  \* 232
      encode_j_type(J, 54),  \* 236
      encode_i_type(ANDI, 2, 2, 1),  \* 240  s8_done:
      encode_r_type(R_TYPE, 0, 2, 2, 3, F_SLL),  \* 244
      encode_r_type(R_TYPE, 17, 2, 17, 0, F_OR),  \* 248
      encode_i_type(BEQ, 17, 0, 15),  \* 252
      encode_i_type(SW, 23, 17, 4),  \* 256
      encode_i_type(ADDI, 17, 10, -1),  \* 260
      encode_i_type(ADDI, 0, 11, 1),  \* 264
      encode_r_type(R_TYPE, 0, 0, 12, 0, F_ADD),  \* 268
      encode_i_type(BEQ, 12, 10, 3),  \* 272  fix_shift:
      encode_r_type(R_TYPE, 0, 11, 11, 1, F_SLL),  \* 276
      encode_i_type(ADDI, 12, 12, 1),  \* 280
      encode_j_type(J, 68),  \* 284
      encode_r_type(R_TYPE, 16, 11, 13, 0, F_OR),  \* 288  fix_now:
      encode_r_type(R_TYPE, 16, 11, 14, 0, F_AND),  \* 292
      encode_i_type(ADDI, 0, 15, -1),  \* 296
      encode_r_type(R_TYPE, 15, 14, 14, 0, F_SUB),  \* 300
      encode_r_type(R_TYPE, 13, 14, 16, 0, F_AND),  \* 304
      encode_i_type(SW, 23, 16, 8),  \* 308
      encode_j_type(J, 85),  \* 312
      encode_i_type(ORI, 0, 9, 21063),  \* 316  is_right:
      encode_r_type(R_TYPE, 0, 9, 9, 16, F_SLL),  \* 320
      encode_i_type(ORI, 0, 10, 18516),  \* 324
      encode_r_type(R_TYPE, 9, 10, 9, 0, F_OR),  \* 328
      encode_i_type(SW, 23, 9, 4),  \* 332
      encode_i_type(SW, 23, 16, 8),  \* 336
      encode_r_type(R_TYPE, 20, 0, 31, 0, F_ADD),  \* 340  test_done:
      encode_r_type(R_TYPE, 31, 0, 0, 0, F_JR)  \* 344
    >>

\* 0xFFFF0000
OUTPUT_BASE_ADDR == Word(65535, 0)

\* 0x52474854, as the program builds it: (0x5247 << 16) | 0x4854
StatusMarker == Word(21063, 18516)

HammingCycles == 640

InitHamming ==
    /\ imem = HammingProgram
    /\ regs = [i \in 0 .. 31 |-> 0]
    /\ dmem = [i \in {} |-> 0]
    /\ regs0 = regs
    /\ dmem0 = dmem
    /\ dmem_rdata = 0
    /\ pc_reg = 0
    /\ prev_pc = 0
    /\ if_id = ZeroIFID
    /\ id_ex = ZeroIDEX
    /\ ex_mem = ZeroEXMEM
    /\ mem_wb = ZeroMEMWB
    /\ cycle = 0
    /\ writes = <<>>
    /\ tag = [ifid |-> FALSE, idex |-> FALSE, exmem |-> FALSE, memwb |-> FALSE]
    /\ retired = 0
    /\ commits = 0
    /\ ref = [pc |-> 0, regs |-> regs, mem |-> dmem, writes |-> <<>>, commits |-> 0]
    /\ btb = BtbReset
    /\ timer = TimerReset

HammingTick == cycle >= ResetCycles /\ cycle < HammingCycles /\ Clock(FALSE)

NextHamming == ResetTick \/ HammingTick

SpecHamming == InitHamming /\ [][NextHamming]_vars

\* C17: running the Hamming program from reset, the first data-memory write
\* is the status marker 0x52474854 to output base + 4 and the second is the
\* word 0 to output base + 8 (the first test case, the good codeword 0).
C17_HammingGoodCodeword ==
    /\ Len(writes) >= 1 => writes[1] = <<WordAdd(OUTPUT_BASE_ADDR, 4), StatusMarker>>
    /\ Len(writes) >= 2 => writes[2] = <<WordAdd(OUTPUT_BASE_ADDR, 8), 0>>

(***************************************************************************)
(* C18: a load issued right after a store to the same address              *)
(***************************************************************************)
\* the store is in MEM (driving the write port) while the load behind it is
\* in EX (driving the read address) with the same address
StoreInMemLoadInEx ==
    /\ tag.exmem /\ ex_mem.mem_write_en = 1
    /\ tag.idex /\ id_ex.mem_read_en = 1
    /\ DmemIndex(execute_out.alu_result_value) = DmemIndex(memory_write.mem_addr_out)

\* C18: in the run of `SW r1,0(r2); LW r5,0(r2); ADD r3,r5,r1; SW r3,4(r2)`,
\* at the edge where the store is in MEM and the load in EX the read port
\* latches the word being stored; the load then writes that word to r5, and
\* the ADD that uses r5 computes with it: r3 = r1 + r1, which the last
\* store writes to r2 + 4.
C18_LoadAfterStoreSeesStoredWord ==
    [][ imem = StoreLoadUse =>
            /\ StoreInMemLoadInEx => dmem_rdata' = regs0[1]
            /\ retired' >= 2 => regs'[5] = regs0[1]
            /\ retired' >= 3 => regs'[3] = WordAdd(regs0[1], regs0[1])
            /\ Len(writes') >= 2 =>
                   writes'[2] = <<WordAdd(regs0[2], 4), WordAdd(regs0[1], regs0[1])>>
      ]_vars

\* the four instructions have retired from a start where the stored word
\* differs from the word the memory held and from the old r5
C18_Witness ==
    /\ imem = StoreLoadUse
    /\ retired >= 4
    /\ Len(writes) = 2
    /\ regs[5] = regs0[1]
    /\ regs0[1] # DmemWord(dmem0, DmemIndex(regs0[2]))
    /\ regs0[1] # regs0[5]
    /\ regs0[1] # 0

(***************************************************************************)
(* The register file on its own: the write port and the two read addresses *)
(* driven freely, through the signals that drive them in the CPU (the      *)
(* write port from MEM/WB, the read addresses from the rs and rt fields of *)
(* IF/ID).  In this specification `writes` records the enabled             *)
(* transactions of the register file's write port, as <<wr_addr, wr_data>>.*)
(***************************************************************************)
RegFileCycles == 3

WritePortInputs ==
    { [dest_reg |-> a, reg_write_en |-> en, mem_to_reg_sel |-> 0,
       alu_result_value |-> d, load_data |-> 0] :
          a \in {0, 1, 31}, en \in {0, 1}, d \in {5, -1} }

ReadPortInputs ==
    { [inst_word |-> encode_r_type(R_TYPE, a0, a1, 0, 0, F_ADD), next_pc |-> 0,
       current_pc |-> 0] : a0 \in {0, 1, 31}, a1 \in {0, 1, 31} }

InitRegFile ==
    /\ regs = [i \in 0 .. 31 |-> 0]
    /\ mem_wb \in WritePortInputs
    /\ if_id \in ReadPortInputs
    /\ imem = <<>>
    /\ dmem = [i \in {} |-> 0]
    /\ regs0 = regs
    /\ dmem0 = dmem
    /\ dmem_rdata = 0
    /\ pc_reg = 0
    /\ prev_pc = 0
    /\ id_ex = ZeroIDEX
    /\ ex_mem = ZeroEXMEM
    /\ cycle = 0
    /\ writes = <<>>
    /\ tag = [ifid |-> FALSE, idex |-> FALSE, exmem |-> FALSE, memwb |-> FALSE]
    /\ retired = 0
    /\ commits = 0
    /\ ref = [pc |-> 0, regs |-> regs, mem |-> dmem, writes |-> <<>>, commits |-> 0]
    /\ btb = BtbReset
    /\ timer = TimerReset

\* one clock edge of the register file; the ports then take new inputs
RegFileEdge ==
    LET wb == writeback_out
    IN  /\ cycle < RegFileCycles
        /\ regs' = RegFileWrite(regs, wb.reg_write_en, wb.dest_reg, wb.write_back_data)
        /\ writes' = IF wb.reg_write_en = 1
                     THEN Append(writes, <<wb.dest_reg, wb.write_back_data>>)
                     ELSE writes
        /\ mem_wb' \in WritePortInputs
        /\ if_id' \in ReadPortInputs
        /\ cycle' = cycle + 1
        /\ UNCHANGED <<imem, dmem, dmem_rdata, pc_reg, prev_pc, id_ex, ex_mem, tag,
                       retired, commits, ref, regs0, dmem0, btb, timer>>

NextRegFile == RegFileEdge

SpecRegFile == InitRegFile /\ [][NextRegFile]_vars

\* the data of the most recent transaction of the trace to index i, 0 if none
RECURSIVE LastWrite(_, _)
LastWrite(tr, i) ==
    IF tr = <<>> THEN 0
    ELSE IF tr[Len(tr)][1] = i THEN tr[Len(tr)][2]
    ELSE LastWrite(SubSeq(tr, 1, Len(tr) - 1), i)

\* the write the port is presenting in this cycle
WriteInFlight == writeback_out.reg_write_en = 1

\* the enabled transactions up to and including this cycle's
IssuedWrites ==
    IF WriteInFlight
    THEN Append(writes, <<writeback_out.dest_reg, writeback_out.write_back_data>>)
    ELSE writes

GoldenRead(tr, i) == IF i = 0 THEN 0 ELSE LastWrite(tr, i)

\* C19: after any sequence of register-file writes, each of the two read
\* ports returns, for its own address i # 0, the data of the most recent
\* write with wr_en = 1 and wr_addr = i, or 0 if there was none (and 0 for
\* i = 0); the stored value of every index is the data of the last clocked
\* write to that index, so a write to one index never changes another.
C19_RegFileIsLastWrite ==
    /\ rs_value_in = GoldenRead(IssuedWrites, RsOf(if_id.inst_word))
    /\ rt_value_in = GoldenRead(IssuedWrites, RtOf(if_id.inst_word))
    /\ \A i \in 1 .. 31 : regs[i] = LastWrite(writes, i)

\* three clocked writes, two of them to register 1 with different data and
\* one to register 31 in between, none in flight; the ports read 1 and 31
C19_Witness ==
    /\ Len(writes) = 3
    /\ writes[1][1] = 1 /\ writes[2][1] = 31 /\ writes[3][1] = 1
    /\ writes[1][2] # writes[3][2] /\ writes[2][2] # writes[3][2]
    /\ ~WriteInFlight
    /\ RsOf(if_id.inst_word) = 1 /\ RtOf(if_id.inst_word) = 31
    /\ rs_value_in = writes[3][2] /\ rt_value_in = writes[2][2]

\* C20: the register file is write-first: in a cycle with wr_en = 1 and
\* wr_addr # 0, a read port whose address equals wr_addr returns wr_data in
\* that cycle, not the stored value; the policy is the same on both ports.
C20_WriteFirstBothPorts ==
    (WriteInFlight /\ writeback_out.dest_reg # 0) =>
        /\ RsOf(if_id.inst_word) = writeback_out.dest_reg =>
               rs_value_in = writeback_out.write_back_data
        /\ RtOf(if_id.inst_word) = writeback_out.dest_reg =>
               rt_value_in = writeback_out.write_back_data

\* both ports read the register being written while it stores another value
C20_Witness ==
    /\ WriteInFlight
    /\ writeback_out.dest_reg = 31
    /\ RsOf(if_id.inst_word) = 31 /\ RtOf(if_id.inst_word) = 31
    /\ regs[31] # writeback_out.write_back_data
    /\ regs[31] # 0
    /\ rs_value_in = writeback_out.write_back_data
    /\ rt_value_in = writeback_out.write_back_data

(***************************************************************************)
(* Single instructions run through the pipeline: bench runs of one-word    *)
(* programs over registers 0..5 from every register preset, the result     *)
(* written to register 6                                                   *)
(***************************************************************************)
AluFuncts == {F_ADD, F_SUB, F_AND, F_OR}

AluPrograms ==
    { <<encode_r_type(R_TYPE, a, b, 6, 0, f)>> : a \in 0 .. 5, b \in 0 .. 5, f \in AluFuncts }

ShiftAmounts == {0, 1, 2, 16, 31}

\* SLT r6,ra,rb; SLL r6,rb,sh; SRL r6,rb,sh
ShiftPrograms ==
    { <<encode_r_type(R_TYPE, a, b, 6, 0, F_SLT)>> : a \in 0 .. 5, b \in 0 .. 5 }
    \cup { <<encode_r_type(R_TYPE, 0, b, 6, sh, f)>> :
               b \in 1 .. 5, sh \in ShiftAmounts, f \in {F_SLL, F_SRL} }

\* SLL r6,r4,1; SRL r7,r6,2 (the pair of the integration program)
ShiftPair ==
    <<encode_r_type(R_TYPE, 0, 4, 6, 1, F_SLL), encode_r_type(R_TYPE, 0, 6, 7, 2, F_SRL)>>

\* 16-bit immediates: 0, 1, 0x7FFF, 0x8000, 0xFFFC, 0xFFFF
Immediates == {0, 1, 32767, 32768, 65532, 65535}

\* op r6,ra,imm; LW r6,imm(r2); SW r1,imm(r2)
ImmPrograms ==
    { <<encode_i_type(op, a, 6, imm)>> :
          op \in {ADDI, ANDI, ORI, SLTI}, a \in {0, 1, 3}, imm \in Immediates }
    \cup { <<encode_i_type(LW, 2, 6, imm)>> : imm \in Immediates }
    \cup { <<encode_i_type(SW, 2, 1, imm)>> : imm \in Immediates }

\* one word of every 6-bit opcode, with rs = 1, rt = 2 and the low half 4
AllOpcodePrograms == { <<encode_i_type(op, 1, 2, 4)>> : op \in 0 .. 63 }

ExecPrograms ==
    AluPrograms \cup ShiftPrograms \cup {ShiftPair} \cup ImmPrograms \cup AllOpcodePrograms

InitExec ==
    /\ imem \in ExecPrograms
    /\ regs \in RegPresets
    /\ dmem \in DmemPresets
    /\ regs0 = regs
    /\ dmem0 = dmem
    /\ dmem_rdata = 0
    /\ pc_reg = 0
    /\ prev_pc = 0
    /\ if_id = ZeroIFID
    /\ id_ex = ZeroIDEX
    /\ ex_mem = ZeroEXMEM
    /\ mem_wb = ZeroMEMWB
    /\ cycle = 0
    /\ writes = <<>>
    /\ tag = [ifid |-> FALSE, idex |-> FALSE, exmem |-> FALSE, memwb |-> FALSE]
    /\ retired = 0
    /\ commits = 0
    /\ ref = [pc |-> 0, regs |-> regs, mem |-> dmem, writes |-> <<>>, commits |-> 0]
    /\ btb = BtbReset
    /\ timer = TimerReset

SpecExec == InitExec /\ [][Next]_vars

\* 32-bit two's complement, bit by bit: bit i of a word
BitOf(a, i) == IF i = 31 THEN (IF a < 0 THEN 1 ELSE 0) ELSE (a \div (2 ^ i)) % 2

\* the signed reading of the bits k .. 31 of a bit vector
RECURSIVE SignedFrom(_, _)
SignedFrom(f, k) == IF k = 31 THEN 0 - f[31] ELSE 2 * SignedFrom(f, k + 1) + f[k]

SignedOf(f) == SignedFrom(f, 0)

\* the carry into bit i of x + y + cin, x and y given as bit vectors
RECURSIVE CarryInto(_, _, _, _)
CarryInto(x, y, cin, i) ==
    IF i = 0 THEN cin
    ELSE LET c == CarryInto(x, y, cin, i - 1)
         IN  IF x[i - 1] + y[i - 1] + c >= 2 THEN 1 ELSE 0

RippleSum(x, y, cin) == [i \in 0 .. 31 |-> (x[i] + y[i] + CarryInto(x, y, cin, i)) % 2]

BitsOf(a) == [i \in 0 .. 31 |-> BitOf(a, i)]

\* (a + b) mod 2^32 and (a - b) mod 2^32 = a + ~b + 1, read as signed
AddMod32(a, b) == SignedOf(RippleSum(BitsOf(a), BitsOf(b), 0))

SubMod32(a, b) == SignedOf(RippleSum(BitsOf(a), [i \in 0 .. 31 |-> 1 - BitOf(b, i)], 1))

And32(a, b) == SignedOf([i \in 0 .. 31 |-> BitOf(a, i) * BitOf(b, i)])

Or32(a, b) == SignedOf([i \in 0 .. 31 |-> IF BitOf(a, i) + BitOf(b, i) >= 1 THEN 1 ELSE 0])

ArithmeticOf(funct, a, b) ==
    CASE funct = F_ADD -> AddMod32(a, b)
      [] funct = F_SUB -> SubMod32(a, b)
      [] funct = F_AND -> And32(a, b)
      [] funct = F_OR  -> Or32(a, b)

\* the value the register file holds at power-on, 0 for register 0
Operand(i) == IF i = 0 THEN 0 ELSE regs0[i]

Shl32(b, sh) == SignedOf([i \in 0 .. 31 |-> IF i >= sh THEN BitOf(b, i - sh) ELSE 0])

Shr32(b, sh) == SignedOf([i \in 0 .. 31 |-> IF i + sh <= 31 THEN BitOf(b, i + sh) ELSE 0])

ShiftOf(funct, a, b, sh) ==
    CASE funct = F_SLT -> IF a < b THEN 1 ELSE 0
      [] funct = F_SLL -> Shl32(b, sh)
      [] funct = F_SRL -> Shr32(b, sh)

\* C22: the ALU operations decode assigns to SLT, SLL and SRL return 1 if
\* a < b (signed) else 0, (b << shamt) mod 2^32 and the logical right shift
\* of b by shamt: once `SLT/SLL/SRL r6,..` has retired r6 holds that value,
\* and after `SLL r6,r4,1; SRL r7,r6,2` r7 = ((r4 << 1) mod 2^32) >> 2.
C22_AluCompareAndShift ==
    /\ (imem \in ShiftPrograms /\ retired >= 1) =>
           regs[6] = ShiftOf(FunctOf(imem[1]), Operand(RsOf(imem[1])),
                             Operand(RtOf(imem[1])), ShamtOf(imem[1]))
    /\ (imem = ShiftPair /\ retired >= 2) => regs[7] = Shr32(Shl32(regs0[4], 1), 2)

(***************************************************************************)
(* C23: the forwarding unit's selection                                    *)
(***************************************************************************)
ExMemProduces(s) == s # 0 /\ ex_mem.reg_write_en = 1 /\ ex_mem.dest_reg = s

MemWbProduces(s) == s # 0 /\ mem_wb.reg_write_en = 1 /\ mem_wb.dest_reg = s

\* C23: for each operand of the instruction in EX, with requested register s
\* and latched value v, the forwarding unit outputs the EX/MEM ALU result if
\* s # 0 and EX/MEM writes s; otherwise the MEM/WB write-back value if s # 0
\* and MEM/WB writes s; otherwise v.  EX/MEM wins when both match, and for
\* s = 0 the output is v.
C23_ForwardingSelection ==
    \A p \in {<<id_ex.rs_index, id_ex.rs_value, forwarding_rs>>,
               <<id_ex.rt_index, id_ex.rt_value, forwarding_rt>>} :
        /\ ExMemProduces(p[1]) => p[3] = ex_mem.alu_result_value
        /\ (~ExMemProduces(p[1]) /\ MemWbProduces(p[1])) =>
               p[3] = writeback_out.write_back_data
        /\ (~ExMemProduces(p[1]) /\ ~MemWbProduces(p[1])) => p[3] = p[2]
        /\ p[1] = 0 => p[3] = p[2]

\* the instruction in EX reads a register that the instructions in MEM and
\* in WB both write, with three different candidate values
C23_Witness ==
    /\ tag.idex /\ tag.exmem /\ tag.memwb
    /\ ExMemProduces(id_ex.rs_index) /\ MemWbProduces(id_ex.rs_index)
    /\ ex_mem.alu_result_value # writeback_out.write_back_data
    /\ ex_mem.alu_result_value # id_ex.rs_value
    /\ writeback_out.write_back_data # id_ex.rs_value
    /\ forwarding_rs = ex_mem.alu_result_value

(***************************************************************************)
(* C24: when the pipeline stalls                                           *)
(***************************************************************************)
\* (a) the instruction in ID/EX is a load into the non-zero register f
LoadUseOn(f) == id_ex.mem_read_en = 1 /\ id_ex.dest_reg # 0 /\ id_ex.dest_reg = f

\* (b) IF/ID holds a BEQ/BNE and ID/EX or EX/MEM writes its non-zero register f
BranchOperandPending(f) ==
    /\ OpcodeOf(if_id.inst_word) \in {BEQ, BNE}
    /\ f # 0
    /\ \/ id_ex.reg_write_en = 1 /\ id_ex.dest_reg = f
       \/ ex_mem.reg_write_en = 1 /\ ex_mem.dest_reg = f

Unsigned16(n) == n

Signed16(n) == IF n >= HalfSign THEN n - Half ELSE n

\* the immediate instruction of a one-word program is in EX
ImmInExecute == imem \in ImmPrograms /\ tag.idex /\ id_ex.alu_operand_sel = 1

\* C25: with the immediate as the ALU's operand B, ANDI and ORI use it
\* zero-extended and ADDI, SLTI, LW and SW use it sign-extended: `ADDI
\* r6,ra,imm` retires r6 = ra + signext(imm), `ORI r6,ra,imm` and `ANDI
\* r6,ra,imm` retire ra OR/AND zeroext(imm), and `SW r1,imm(r2)` writes to
\* r2 + signext(imm).
C25_ImmediateExtension ==
    LET w   == imem[1]
        op  == OpcodeOf(w)
        imm == ImmOf(w)
        a   == Operand(RsOf(w))
    IN  /\ ImmInExecute =>
               AluOperandB(id_ex, forwarding_rt) =
                   IF op \in {ANDI, ORI} THEN Unsigned16(imm) ELSE Signed16(imm)
        /\ (imem \in ImmPrograms /\ retired >= 1) =>
               /\ op = ADDI => regs[6] = AddMod32(a, Signed16(imm))
               /\ op = ORI  => regs[6] = Or32(a, Unsigned16(imm))
               /\ op = ANDI => regs[6] = And32(a, Unsigned16(imm))
               /\ op = SW   => writes = << <<AddMod32(a, Signed16(imm)), regs0[1]>> >>

\* ORI r6,r0,0x8000 has retired 32768, not -32768
C25_Witness ==
    /\ imem = <<encode_i_type(ORI, 0, 6, 32768)>>
    /\ retired >= 1
    /\ regs[6] = 32768

(***************************************************************************)
(* C26: a store right behind the producers of its operands                 *)
(***************************************************************************)
StoreInExecute == tag.idex /\ id_ex.mem_write_en = 1

\* the registers after every instruction older than the one in EX
ArchBeforeExecute == RefAhead(InWriteBack + (IF tag.exmem THEN 1 ELSE 0))

\* C26: at the edge that ends the EX cycle of a SW, the store data latched
\* in EX/MEM is the value rt has after every older instruction, and the
\* address is that value of rs plus the sign-extended offset, also when the
\* producer of rt or of rs is the instruction just ahead or two ahead and
\* ID/EX latched a stale register-file read.
C26_StoreUsesForwardedOperands ==
    [][ StoreInExecute =>
            /\ ex_mem'.store_data = RefReg(ArchBeforeExecute, id_ex.rt_index)
            /\ ex_mem'.alu_result_value =
                   WordAdd(RefReg(ArchBeforeExecute, id_ex.rs_index),
                           SignExt16(id_ex.imm_value))
      ]_vars

\* ADD r1,r2,r3; ANDI r3,r1,0xFFFC; SW r3,4(r1): the store's base is produced
\* two ahead and its data one ahead, and the write made differs from the
\* one the power-on registers would give in address and in data
C26_Witness ==
    /\ imem = <<ADD_1_2_3, encode_i_type(ANDI, 1, 3, 65532), SW_3_4_1>>
    /\ Len(writes) = 1
    /\ writes[1][1] = WordAdd(WordAdd(regs0[2], regs0[3]), 4)
    /\ writes[1][1] # WordAdd(regs0[1], 4)
    /\ writes[1][2] = WordAnd(WordAdd(regs0[2], regs0[3]), 65532)
    /\ writes[1][2] # regs0[3]

(***************************************************************************)
(* The MEM stage on its own: EX/MEM and the external read data driven      *)
(* freely, every combination of the two memory enables included            *)
(***************************************************************************)
MemoryCycles == 3

MemoryInputs ==
    { [alu_result_value |-> a, store_data |-> d, mem_read_en |-> r, mem_write_en |-> w,
       dest_reg |-> 1, reg_write_en |-> r, mem_to_reg_sel |-> r] :
          a \in {8, 16}, d \in {7, -1}, r \in {0, 1}, w \in {0, 1} }

ReadDataInputs == {0, 21}

InitMemory ==
    /\ ex_mem \in MemoryInputs
    /\ dmem_rdata \in ReadDataInputs
    /\ imem = <<>>
    /\ regs = [i \in 0 .. 31 |-> 0]
    /\ dmem = [i \in {} |-> 0]
    /\ regs0 = regs
    /\ dmem0 = dmem
    /\ pc_reg = 0
    /\ prev_pc = 0
    /\ if_id = ZeroIFID
    /\ id_ex = ZeroIDEX
    /\ mem_wb = ZeroMEMWB
    /\ cycle = 0
    /\ writes = <<>>
    /\ tag = [ifid |-> FALSE, idex |-> FALSE, exmem |-> FALSE, memwb |-> FALSE]
    /\ retired = 0
    /\ commits = 0
    /\ ref = [pc |-> 0, regs |-> regs, mem |-> dmem, writes |-> <<>>, commits |-> 0]
    /\ btb = BtbReset
    /\ timer = TimerReset

\* one clock edge: MEM/WB and the data memory take what the stage drives,
\* then EX/MEM and the read data take new values
MemoryEdge ==
    LET mw == memory_write
    IN  /\ cycle < MemoryCycles
        /\ mem_wb' = MEMWBRegister(memory_out)
        /\ dmem' = DmemWrite(dmem, mw.mem_write_en_out, mw.mem_addr_out,
                             mw.mem_write_data_out)
        /\ writes' = IF mw.mem_write_en_out = 1
                     THEN Append(writes, <<mw.mem_addr_out, mw.mem_write_data_out>>)
                     ELSE writes
        /\ ex_mem' \in MemoryInputs
        /\ dmem_rdata' \in ReadDataInputs
        /\ cycle' = cycle + 1
        /\ UNCHANGED <<imem, regs, pc_reg, prev_pc, if_id, id_ex, tag, retired,
                       commits, ref, regs0, dmem0, btb, timer>>

NextMemory == MemoryEdge

SpecMemory == InitMemory /\ [][NextMemory]_vars

\* C27: the data-memory write enable is asserted exactly when
\* EX/MEM.mem_write_en = 1; the write then goes to the EX/MEM ALU result
\* with EX/MEM store_data and the load data passed to MEM/WB is 0 (also when
\* mem_read_en = 1: the write wins); with mem_write_en = 0 the load data is
\* the external read data if mem_read_en = 1 and 0 otherwise.
C27_MemoryStageOutputs ==
    [][ MemoryEdge =>
            /\ memory_write.mem_write_en_out = 1 <=> ex_mem.mem_write_en = 1
            /\ IF ex_mem.mem_write_en = 1
               THEN /\ writes' = Append(writes, <<ex_mem.alu_result_value, ex_mem.store_data>>)
                    /\ dmem'[DmemIndex(ex_mem.alu_result_value)] = ex_mem.store_data
                    /\ mem_wb'.load_data = 0
               ELSE /\ writes' = writes
                    /\ dmem' = dmem
                    /\ mem_wb'.load_data =
                           IF ex_mem.mem_read_en = 1 THEN dmem_rdata ELSE 0
      ]_vars

\* EX/MEM presents both enables with non-zero read data: the write is
\* driven and the load data is 0; an earlier read has latched read data
C27_Witness ==
    /\ cycle >= 1
    /\ ex_mem.mem_write_en = 1 /\ ex_mem.mem_read_en = 1
    /\ dmem_rdata # 0
    /\ memory_write.mem_write_en_out = 1
    /\ memory_write.mem_write_data_out = ex_mem.store_data
    /\ memory_out.load_data = 0
    /\ mem_wb.load_data # 0

(***************************************************************************)
(* C28: the two memory enables                                             *)
(***************************************************************************)
BothEnables(e) == e.mem_read_en = 1 /\ e.mem_write_en = 1

\* C28: in every reachable state, whatever the instruction word in decode,
\* mem_read_en and mem_write_en are not both 1 in decode's output, in ID/EX
\* or in EX/MEM: the MEM stage's write arm never sees both enables set.
C28_EnablesExclusive ==
    /\ ~BothEnables(decode_out)
    /\ ~BothEnables(id_ex)
    /\ ~BothEnables(ex_mem)

\* the store of the one-word program `SW r2,4(r1)` is in MEM, driving the
\* write port with mem_read_en low
C28_Witness ==
    /\ imem = <<encode_i_type(SW, 1, 2, 4)>>
    /\ tag.exmem
    /\ ex_mem.mem_write_en = 1 /\ ex_mem.mem_read_en = 0
    /\ memory_write.mem_write_en_out = 1

(***************************************************************************)
(* C29: the length of a load-use stall                                     *)
(***************************************************************************)
\* IF/ID holds a fetched instruction that is neither a branch nor a jump and
\* names register d # 0 in its rs or rt field
ConsumerInDecode(d) ==
    /\ tag.ifid
    /\ OpcodeOf(if_id.inst_word) \notin {BEQ, BNE, J, JAL}
    /\ d # 0
    /\ d \in {RsOf(if_id.inst_word), RtOf(if_id.inst_word)}

\* the load is in EX and its consumer right behind it in decode
LoadAheadInExecute == tag.idex /\ id_ex.mem_read_en = 1 /\ ConsumerInDecode(id_ex.dest_reg)

\* one cycle later: the load in MEM, nothing fetched in EX, the consumer
\* still in decode
LoadAheadInMemory ==
    /\ tag.exmem /\ ex_mem.mem_read_en = 1 /\ ~tag.idex
    /\ ConsumerInDecode(ex_mem.dest_reg)

\* C29: a load followed at once by a non-branch instruction that reads its
\* destination stalls the pipeline for exactly one cycle.  In the cycle with
\* the load in EX the stall is asserted: at the edge the PC and IF/ID are
\* held and a bubble enters ID/EX.  In the next cycle, the load in MEM, the
\* stall is low: at the edge the consumer enters ID/EX, behind exactly one
\* bubble, and the PC moves on.
C29_LoadUseStallsOneCycle ==
    [][ /\ LoadAheadInExecute =>
               /\ pipeline_stall
               /\ pc_reg' = pc_reg /\ if_id' = if_id
               /\ Bubble(id_ex') /\ ~tag'.idex
               /\ LoadAheadInMemory'
        /\ LoadAheadInMemory =>
               /\ ~pipeline_stall
               /\ pc_reg' # pc_reg
               /\ id_ex' = decode_out
               /\ tag'.idex /\ ~tag'.exmem /\ tag'.memwb
      ]_vars

\* the consumer of `LW r1,0(r2); ADD r3,r1,r4` is in EX right behind one
\* bubble, the load in write-back
C29_Witness ==
    /\ imem = LoadUse
    /\ tag.idex /\ ~tag.exmem /\ tag.memwb
    /\ id_ex.dest_reg = 3 /\ id_ex.rs_index = 1
    /\ mem_wb.mem_to_reg_sel = 1 /\ mem_wb.dest_reg = 1
    /\ Bubble(ex_mem)
    /\ retired = 0

(***************************************************************************)
(* C30: an ALU instruction with a branch on its result right behind it     *)
(***************************************************************************)
\* the latch holds an instruction that writes a register other than $0
\* with its ALU result
AluProducer(e) == e.reg_write_en = 1 /\ e.mem_read_en = 0 /\ e.dest_reg # 0

\* decode holds a fetched BEQ/BNE that reads register d
BranchInDecode(d) == /\ tag.ifid /\ OpcodeOf(if_id.inst_word) \in {BEQ, BNE} /\ d \in {RsOf(if_id.inst_word), RtOf(if_id.inst_word)}

\* the producer is in EX and the branch right behind it in decode
AluAheadInExecute == tag.idex /\ AluProducer(id_ex) /\ BranchInDecode(id_ex.dest_reg)

\* one cycle later: the producer in MEM, a bubble in EX
AluAheadInMemory == /\ tag.exmem /\ AluProducer(ex_mem) /\ ~tag.idex /\ BranchInDecode(ex_mem.dest_reg)

\* two cycles later: the producer in write-back, bubbles in EX and MEM
AluAheadInWriteBack ==
    /\ tag.memwb /\ mem_wb.reg_write_en = 1 /\ mem_wb.mem_to_reg_sel = 0
    /\ mem_wb.dest_reg # 0
    /\ ~tag.idex /\ ~tag.exmem
    /\ BranchInDecode(mem_wb.dest_reg)

\* the value the branch in decode compares for register d
BranchOperand(d) == IF RsOf(if_id.inst_word) = d THEN rs_value_in ELSE rt_value_in

ResolveOffsets == {1, 65534, 32767, 32768}

\* jump fields: 2, all ones, the top bit alone
ResolveFields == {2, 67108863, 33554432}

ResolveWords ==
    {encode_i_type(op, 1, 4, imm) : op \in {BEQ, BNE}, imm \in ResolveOffsets}
        \cup {encode_j_type(op, f) : op \in {J, JAL}, f \in ResolveFields}

\* instruction addresses: 0, 12, 0xEFFFFFFC (A+4 carries into bits 31..28)
\* and 0xFFFFFFFC (A+4 wraps to 0)
ResolvePcs == {0, 12, Word(61439, 65532), Word(65535, 65532)}

\* IF/ID as fetch fills it: the predicted next PC is the address after
ResolveInputs ==
    { [inst_word |-> w, current_pc |-> a, next_pc |-> WordAdd(a, 4)] :
        w \in ResolveWords, a \in ResolvePcs }

InitResolve ==
    /\ imem = BranchFlush
    /\ dmem \in DmemPresets
    /\ dmem0 = dmem
    /\ dmem_rdata = 0
    /\ regs \in RegPresets
    /\ regs0 = regs
    /\ if_id \in ResolveInputs
    /\ pc_reg = PCLoad(if_id.next_pc)
    /\ prev_pc = if_id.current_pc
    /\ id_ex = ZeroIDEX
    /\ ex_mem = ZeroEXMEM
    /\ mem_wb = ZeroMEMWB
    /\ cycle = ResetCycles
    /\ writes = <<>>
    /\ tag = [ifid |-> TRUE, idex |-> FALSE, exmem |-> FALSE, memwb |-> FALSE]
    /\ retired = 0
    /\ commits = 0
    /\ ref = [pc |-> 0, regs |-> regs, mem |-> dmem, writes |-> <<>>, commits |-> 0]
    /\ btb = BtbReset
    /\ timer = TimerReset

SpecResolve == InitResolve /\ [][NextDecode]_vars

\* a word address counted in words, wrapped into -2^29 .. 2^29 - 1
WrapWords(q) == ((q + 536870912) % 1073741824) - 536870912

\* (A + 4 + (signext16(imm) << 2)) mod 2^32 read as a signed word, computed
\* in words: A = 4q + r, the target 4 * (q + 1 + signed imm) + r
BranchTargetOf(a, imm) == 4 * WrapWords((a \div 4) + 1 + Signed16(imm)) + (a % 4)

\* bits 31..28 of A+4, the 26-bit field, two zero bits
JumpTargetOf(a, w) ==
    LET nibble == (WrapWords((a \div 4) + 1) \div 67108864) % 16
        field  == w % 67108864
    IN  (IF nibble >= 8 THEN nibble - 16 ELSE nibble) * 268435456 + 4 * field

\* the BEQ/BNE in decode is taken on the operand values decode reads
TakenInDecode ==
    \/ OpcodeOf(if_id.inst_word) = BEQ /\ rs_value_in = rt_value_in
    \/ OpcodeOf(if_id.inst_word) = BNE /\ rs_value_in # rt_value_in

\* C31: a taken BEQ/BNE at address A with immediate imm resolves next PC =
\* (A + 4 + (signext16(imm) << 2)) mod 2^32; a J/JAL at A with field addr
\* resolves next PC = bits 31..28 of A+4, addr, two zero bits; a BEQ/BNE
\* whose condition is false resolves to the predicted next PC in IF/ID.
C31_ResolvedNextPc ==
    LET w  == if_id.inst_word
        op == OpcodeOf(w)
    IN  /\ op \in {J, JAL} => decode_out.next_pc = JumpTargetOf(if_id.current_pc, w)
        /\ op \in {BEQ, BNE} /\ TakenInDecode =>
               decode_out.next_pc = BranchTargetOf(if_id.current_pc, ImmOf(w))
        /\ op \in {BEQ, BNE} /\ ~TakenInDecode => decode_out.next_pc = if_id.next_pc

\* a taken BEQ at 0xFFFFFFFC with offset -32768 resolves to 0xFFFE0000:
\* the sum wraps through 2^32
C31_Witness ==
    /\ if_id.inst_word = encode_i_type(BEQ, 1, 4, 32768)
    /\ if_id.current_pc = Word(65535, 65532)
    /\ TakenInDecode
    /\ decode_out.next_pc = Word(65534, 0)
    /\ flush_request

(***************************************************************************)
(* The branch target buffer alone: each edge applies the update, then the  *)
(* ports take new inputs                                                   *)
(***************************************************************************)
\* the CPU's own state while a peripheral component is exercised alone
CpuIdle ==
    /\ imem = <<>>
    /\ dmem = [i \in {} |-> 0]
    /\ regs = [i \in 0 .. 31 |-> 0]
    /\ regs0 = regs
    /\ dmem0 = dmem
    /\ dmem_rdata = 0
    /\ pc_reg = 0
    /\ prev_pc = 0
    /\ if_id = ZeroIFID
    /\ id_ex = ZeroIDEX
    /\ ex_mem = ZeroEXMEM
    /\ mem_wb = ZeroMEMWB
    /\ cycle = 0
    /\ writes = <<>>
    /\ tag = [ifid |-> FALSE, idex |-> FALSE, exmem |-> FALSE, memwb |-> FALSE]
    /\ retired = 0
    /\ commits = 0
    /\ ref = [pc |-> 0, regs |-> regs, mem |-> dmem, writes |-> <<>>, commits |-> 0]

cpu_vars == <<imem, dmem, dmem_rdata, pc_reg, prev_pc, regs, if_id, id_ex, ex_mem, mem_wb, cycle, writes, tag, retired, commits, ref, regs0, dmem0>>

BtbAddrs == {0, 8, 12}

BtbTargets == {16, 20, 24}

\* b with its input ports driven anew
BtbDriven(b) ==
    { [b EXCEPT !.lookup_addr = l, !.update_addr = u, !.update_target = t, !.update_enable = en] :
        l \in BtbAddrs, u \in BtbAddrs, t \in BtbTargets, en \in {0, 1} }

InitBtb ==
    /\ CpuIdle
    /\ btb \in BtbDriven(BtbReset)
    /\ timer = TimerReset

BtbEdge ==
    /\ btb' \in BtbDriven(BtbUpdate(btb))
    /\ UNCHANGED cpu_vars
    /\ UNCHANGED timer

NextBtb == BtbEdge

SpecBtb == InitBtb /\ [][NextBtb]_vars

\* the entries whose tag is the word-aligned address p
BtbMatching(b, p) == {i \in BtbSlots : BtbTagAddr(b, i) = p}

\* the first of a non-empty set of entries
FirstSlot(m) == CHOOSE i \in m : \A k \in m : i <= k

\* the arrays and the index, without the input ports
BtbContents(b) == <<b.index, b.tag_array, b.target_array, b.predicted_array>>

\* C32: for a lookup of PC p, hit is 1 if and only if at least one stored
\* entry's tag equals p, and on a hit the reported target and predicted-taken
\* bit are those of the first matching entry; an edge without an update
\* changes no BTB state.
C32_BtbLookup ==
    [][ LET m   == BtbMatching(btb, btb.lookup_addr)
            out == BtbLookup(btb)
        IN  /\ out.hit = 1 <=> m # {}
            /\ m # {} =>
                   /\ out.target_addr = PCAddrOut(btb.target_array[FirstSlot(m)])
                   /\ out.predicted = btb.predicted_array[FirstSlot(m)]
            /\ btb.update_enable = 0 => BtbContents(btb') = BtbContents(btb)
      ]_vars

\* C33: an update for PC p with target t overwrites only the target of the
\* entry whose tag is p, the allocation index unchanged, if there is one;
\* otherwise the entry at the allocation index gets tag p and target t and
\* the index advances by one, wrapping to 0 after the last of the N slots.
C33_BtbUpdate ==
    [][ btb.update_enable = 1 =>
            LET m == BtbMatching(btb, btb.update_addr)
                p == PCLoad(btb.update_addr)
                t == PCLoad(btb.update_target)
            IN  IF m # {}
                THEN /\ btb'.target_array = [btb.target_array EXCEPT ![FirstSlot(m)] = t]
                     /\ btb'.tag_array = btb.tag_array
                     /\ btb'.index = btb.index
                ELSE /\ btb'.tag_array = [btb.tag_array EXCEPT ![btb.index] = p]
                     /\ btb'.target_array = [btb.target_array EXCEPT ![btb.index] = t]
                     /\ btb'.index = (btb.index + 1) % BtbSize
      ]_vars

(***************************************************************************)
(* C34: the prediction made by fetch in the CPU as wired                   *)
(***************************************************************************)
\* (A + 4) mod 2^32, computed in words
NextSequential(a) == 4 * WrapWords((a \div 4) + 1) + (a % 4)

\* C34: in every reachable cycle, reset asserted or not, the predicted next
\* PC that fetch presents to IF/ID and to the PC selector is the current PC
\* + 4, and so is the prediction latched in IF/ID with every word fetched.
C34_FetchPredictsSequential ==
    /\ \A reset \in BOOLEAN : fetch_out(reset).next_pc = NextSequential(pc_current)
    /\ cycle >= 1 => if_id.next_pc = NextSequential(if_id.current_pc)

\* the BNE of the loop-free branch program is in decode, taken, and was
\* predicted not taken; the word fetched behind it is again predicted
\* sequentially
C34_Witness ==
    /\ imem = BranchFlush
    /\ tag.ifid
    /\ OpcodeOf(if_id.inst_word) = BNE
    /\ flush_request
    /\ if_id.next_pc = NextSequential(if_id.current_pc)
    /\ decode_out.next_pc # if_id.next_pc
    /\ fetch_out(FALSE).next_pc = NextSequential(pc_current)
    /\ pc_current = 8

(***************************************************************************)
(* The PC register alone, with the fetch stage's saved previous PC.  In    *)
(* SpecPc `writes` is the history of the port values applied at the edges, *)
(* <<reset, enable, addr_in>> each.                                        *)
(***************************************************************************)
PcCycles == 3

\* addresses loaded: aligned ones, 0x3003, 0x9999, 0xFFFFFFFE
PcAddrs == {4, 8192, 12291, 39321, -2}

PcPortInputs == {<<r, en, a>> : r \in BOOLEAN, en \in BOOLEAN, a \in PcAddrs}

InitPc ==
    /\ CpuIdle
    /\ btb = BtbReset
    /\ timer = TimerReset

\* one clock edge of the PC and of the fetch stage's prev_pc (stall is the
\* complement of the PC's enable)
PcEdge ==
    /\ cycle < PcCycles
    /\ \E in \in PcPortInputs :
           /\ pc_reg' = PCRegister(pc_reg, in[1], in[2], in[3])
           /\ prev_pc' = FetchPrevPc(prev_pc, pc_current, ~in[2], in[1])
           /\ writes' = Append(writes, in)
    /\ cycle' = cycle + 1
    /\ UNCHANGED <<imem, dmem, dmem_rdata, regs, if_id, id_ex, ex_mem, mem_wb, tag, retired, commits, ref, regs0, dmem0, btb, timer>>

NextPc == PcEdge

SpecPc == InitPc /\ [][NextPc]_vars

\* the ports' values applied at the edge that led to the next state
AppliedAtEdge == writes'[Len(writes')]

\* a with its two low bits cleared
Aligned(a) == a - (a % 4)

\* C35: the PC output, and with it both addresses fetch can drive to the
\* instruction memory, is a multiple of 4 in every state; an edge with
\* enable and no reset leaves the loaded value with its two low bits
\* cleared at the output, and an edge with enable and reset both 0 leaves
\* the PC unchanged.
C35_PcAligned ==
    [][ LET reset == AppliedAtEdge[1]
            enable == AppliedAtEdge[2]
            addr_in == AppliedAtEdge[3]
        IN  /\ PCAddrOut(pc_reg) % 4 = 0 /\ PCAddrOut(pc_reg') % 4 = 0
            /\ prev_pc % 4 = 0 /\ prev_pc' % 4 = 0
            /\ \A stall \in BOOLEAN : FetchImemAddr(PCAddrOut(pc_reg'), prev_pc', stall) % 4 = 0
            /\ ~reset /\ enable => PCAddrOut(pc_reg') = Aligned(addr_in)
            /\ ~reset /\ ~enable => pc_reg' = pc_reg
      ]_vars

\* 0x3003 was loaded and reads back as 0x3000, then held through an edge
\* with another address at the input and enable low
C35_Witness ==
    /\ Len(writes) = 2
    /\ writes[1] = <<FALSE, TRUE, 12291>>
    /\ writes[2] = <<FALSE, FALSE, 39321>>
    /\ pc_current = 12288

(***************************************************************************)
(* The timer alone.  In SpecTimer `writes` is the history of the values of *)
(* en sampled at the clock edges, oldest first.                            *)
(***************************************************************************)
TimerCycles == 7

InitTimer ==
    /\ CpuIdle
    /\ btb = BtbReset
    /\ timer \in {[TimerReset EXCEPT !.en = en] : en \in {0, 1}}

\* one clock edge; the environment then drives en anew
TimerEdge ==
    /\ cycle < TimerCycles
    /\ \E en \in {0, 1} : timer' = [counter |-> TimerCount(timer), en |-> en]
    /\ writes' = Append(writes, timer.en)
    /\ cycle' = cycle + 1
    /\ UNCHANGED <<imem, dmem, dmem_rdata, pc_reg, prev_pc, regs, if_id, id_ex, ex_mem, mem_wb, tag, retired, commits, ref, regs0, dmem0, btb>>

NextTimer == TimerEdge

SpecTimer == InitTimer /\ [][NextTimer]_vars

\* en was 1 at each of the last n clock edges
EnabledForLast(n) ==
    /\ Len(writes) >= n
    /\ \A k \in (Len(writes) - n + 1) .. Len(writes) : writes[k] = 1

\* C36: the flag is 1 in a cycle if and only if en is 1 and en was 1 at the
\* max_count preceding consecutive clock edges at least; the flag is 0
\* whenever en is 0, and an edge with en low restarts the count from 0.
C36_TimerFlag ==
    /\ TimerFlag(timer) = 1 <=> (timer.en = 1 /\ EnabledForLast(TimerMaxCount))
    /\ timer.en = 0 => TimerFlag(timer) = 0
    /\ Len(writes) > 0 /\ writes[Len(writes)] = 0 => timer.counter = 0

\* en dropped for one edge after two enabled ones; the flag rises only
\* after max_count further enabled edges
C36_Witness ==
    /\ Len(writes) = TimerMaxCount + 3
    /\ writes[1] = 1 /\ writes[2] = 1 /\ writes[3] = 0
    /\ EnabledForLast(TimerMaxCount)
    /\ timer.en = 1
    /\ TimerFlag(timer) = 1

(***************************************************************************)
(* C37: the length of a stall                                              *)
(***************************************************************************)
\* a stalled cycle with a bubble in EX, as the cycle after a stalled one is
StalledBehindBubble == pipeline_stall /\ Bubble(id_ex)

\* C37: with reset low the stall is never asserted in more than two
\* consecutive cycles.  Every edge under a stall puts a bubble into ID/EX,
\* and a stalled cycle with a bubble in EX (as every stalled cycle that
\* follows a stalled cycle is) is followed by a cycle without stall, at
\* whose edge the instruction held in decode goes on to ID/EX.
C37_StallAtMostTwoCycles ==
    [][ cycle >= ResetCycles =>
            /\ pipeline_stall => Bubble(id_ex') /\ ~tag'.idex /\ if_id' = if_id
            /\ ~pipeline_stall /\ tag.ifid => id_ex' = decode_out /\ tag'.idex
            /\ StalledBehindBubble =>
                   /\ ~pipeline_stall'
                   /\ Bubble(ex_mem')
      ]_vars

\* second stalled cycle of the BEQ right behind the load of its operand:
\* the load in MEM, the bubble of the first stalled cycle in EX
C37_Witness ==
    /\ imem[1] = LW_1_0_2 /\ imem[2] = BEQ_1_4_p1
    /\ if_id.inst_word = BEQ_1_4_p1
    /\ StalledBehindBubble
    /\ ~tag.idex /\ tag.exmem
    /\ ex_mem.mem_read_en = 1

(***************************************************************************)
(* C38: what the EX/MEM forwarding path carries                            *)
(***************************************************************************)
\* a forwarding unit selects the EX/MEM source for an operand of the
\* instruction in EX
ExMemSelected == ExMemProduces(id_ex.rs_index) \/ ExMemProduces(id_ex.rt_index)

\* C38: in every reachable cycle, if the instruction in EX has reg_write_en,
\* mem_write_en or mem_read_en set and a forwarding unit selects the EX/MEM
\* source for its rs or rt, the instruction in EX/MEM is not a load.
C38_NoLoadAddressForwarded ==
    ~Bubble(id_ex) /\ ExMemSelected => ex_mem.mem_to_reg_sel = 0

\* `ADD r1,r2,r3; SUB r4,r1,r5`: the SUB in EX takes r1 from the ADD in MEM
C38_Witness ==
    /\ imem = AddSub
    /\ tag.idex /\ tag.exmem
    /\ ~Bubble(id_ex)
    /\ ExMemProduces(id_ex.rs_index)
    /\ ex_mem.mem_to_reg_sel = 0
    /\ forwarding_rs = ex_mem.alu_result_value
    /\ forwarding_rs # id_ex.rs_value

(***************************************************************************)
(* C39: what reset leaves alone                                            *)
(***************************************************************************)
\* the register array with the write of the instruction in write-back, if
\* it makes one, and no other change
RegsAfterWriteBack ==
    [i \in 0 .. 31 |->
        IF mem_wb.reg_write_en = 1 /\ i = mem_wb.dest_reg /\ i # 0
        THEN (IF mem_wb.mem_to_reg_sel = 1 THEN mem_wb.load_data ELSE mem_wb.alu_result_value)
        ELSE regs[i]]

\* the data memory write of the instruction in MEM, if it makes one
StoreInMemory == ex_mem.mem_write_en = 1

\* C39: a clock edge with reset asserted changes, compared with the same
\* edge without reset, only the PC, the fetch stage's saved previous PC and
\* the instruction word entering IF/ID.  The register array is not cleared:
\* it takes the write of the instruction in write-back and nothing else;
\* the instructions in ID/EX, EX/MEM and MEM/WB advance one stage, the store
\* in MEM writes the data memory, and the PCs latched into IF/ID are those
\* fetch presents without reset.
C39_ResetFrame ==
    [][ Clock(TRUE) =>
            /\ regs' = RegsAfterWriteBack
            /\ id_ex' = IDEXRegister(decode_out, pipeline_stall)
            /\ ex_mem' = execute_out
            /\ mem_wb' = memory_out
            /\ tag'.idex = (tag.ifid /\ ~pipeline_stall)
            /\ tag'.exmem = tag.idex /\ tag'.memwb = tag.exmem
            /\ StoreInMemory =>
                   /\ DmemWord(dmem', DmemIndex(ex_mem.alu_result_value)) = ex_mem.store_data
                   /\ writes' = Append(writes, <<ex_mem.alu_result_value, ex_mem.store_data>>)
            /\ ~StoreInMemory => dmem' = dmem /\ writes' = writes
            /\ if_id'.current_pc = IFIDRegister(if_id, fetch_out(FALSE), pipeline_stall).current_pc
            /\ if_id'.next_pc = IFIDRegister(if_id, fetch_out(FALSE), pipeline_stall).next_pc
      ]_vars

\* `ADD r1,r2,r3; SUB r4,r1,r5` with reset asserted again at the edge that
\* retires the ADD: r1 has taken the sum, the SUB has moved to write-back,
\* the PC is 0 and a NOP is in IF/ID
C39_Witness ==
    /\ imem = AddSub
    /\ cycle = ResetCycles + 5
    /\ PCAddrOut(pc_reg) = 0 /\ prev_pc = 0
    /\ if_id.inst_word = nop /\ ~tag.ifid
    /\ commits = 1
    /\ regs[1] # regs0[1]
    /\ tag.memwb /\ mem_wb.dest_reg = 4

(***************************************************************************)
(* C40: the address fetch drives under a stall                             *)
(***************************************************************************)
\* C40: in every stalled cycle of a run whose reset is low since the bench
\* released it, the instruction-memory address is the address of the
\* instruction held in IF/ID, not the PC register, which already holds the
\* address after it and keeps it over the edge; in the first cycle after
\* the stall the address is the PC register, and the word fetched then is
\* the instruction after the stalled one, latched into IF/ID at that edge.
C40_StallRefetchesHeldInstruction ==
    [][ /\ pipeline_stall =>
               /\ imem_addr = if_id.current_pc
               /\ imem_addr # pc_current
               /\ pc_current = NextSequential(if_id.current_pc)
               /\ pc_reg' = pc_reg /\ prev_pc' = prev_pc
        /\ pipeline_stall /\ ~pipeline_stall' =>
               /\ imem_addr' = pc_current'
               /\ imem_addr' = NextSequential(if_id'.current_pc)
        /\ ~pipeline_stall /\ cycle >= ResetCycles =>
               /\ if_id'.current_pc = imem_addr
               /\ if_id'.inst_word = (IF flush_request THEN nop ELSE ImemRead(imem, imem_addr))
      ]_vars

\* `LW r1,0(r2); ADD r3,r1,r4` in the stalled cycle: the ADD at 4 is held
\* in decode and addressed again, the PC is 8
C40_Witness ==
    /\ imem = LoadUse
    /\ pipeline_stall
    /\ if_id.inst_word = ADD_3_1_4
    /\ if_id.current_pc = 4
    /\ imem_addr = 4
    /\ pc_current = 8

=============================================================================
